---- MODULE Spec2Model ----
\* Verification model of the PlanBox planner core: the server operations of
\* the planner API (daily planners, brain dump items, top priorities, time
\* blocks) against a relational store with unique constraints, foreign keys
\* and the derived-flag triggers.
EXTENDS Integers, Sequences, FiniteSets, TLC

\* ------------------------------------------------------------------
\* Bounds
\* ------------------------------------------------------------------
MaxItems == 2
MaxBlocks == 2
MaxReorder == 2
MaxOrder == 2

\* ------------------------------------------------------------------
\* Values
\* ------------------------------------------------------------------
NULL == "null"
NoUser == "nouser"
Users == {"u1", "u2"}
Dates == {"2025-06-01"}
Slots == {1, 2, 3}
Texts == {"t"}

ItemId(n) == "i" \o ToString(n)
PriorityId(n) == "p" \o ToString(n)
BlockId(n) == "b" \o ToString(n)
PlannerId(n) == "pl" \o ToString(n)

ItemIds == {ItemId(n) : n \in 1..MaxItems}
BlockIds == {BlockId(n) : n \in 1..MaxBlocks}
PriorityIds == {PriorityId(n) : n \in 1..Cardinality(Slots)}
PlannerIds == {PlannerId(n) : n \in 1..(Cardinality(Users) * Cardinality(Dates))}

VARIABLES
    daily_planners,     \* rows of table daily_planners
    brain_dump_items,   \* rows of table brain_dump_items
    top_priorities,     \* rows of table top_priorities
    time_blocks,        \* rows of table time_blocks
    ret,                \* outcome of the last completed API call
    req,                \* per-request position of getOrCreatePlanner calls
    planner,            \* DashboardContent: the planner prop (last server snapshot)
    localBrainDump,     \* DashboardContent: local state for optimistic updates
    localPriorities,    \* DashboardContent: local state for optimistic updates
    pending,            \* DashboardContent: handlers awaiting their server call
    gestures,           \* DashboardContent: how many handlers have been started
    isUpdating,         \* DashboardContent: the 'Saving...' indicator
    draggedId,          \* DashboardContent: activeId, the id being dragged
    modal,              \* DashboardContent: isModalOpen, editingBlock, droppedHour
    console             \* what handleDragEnd logged last

store == <<daily_planners, brain_dump_items, top_priorities, time_blocks>>
dnd == <<draggedId, modal, console>>
app == <<planner, localBrainDump, localPriorities, pending, gestures, isUpdating>>
ui == <<planner, localBrainDump, localPriorities, pending, gestures, isUpdating, dnd>>
vars == <<daily_planners, brain_dump_items, top_priorities, time_blocks, ret, req,
          planner, localBrainDump, localPriorities, pending, gestures, isUpdating,
          draggedId, modal, console>>

\* ------------------------------------------------------------------
\* Generic helpers
\* ------------------------------------------------------------------
\* value of an optional column of a payload (a JS object with optional keys)
Col(payload, name, default) ==
    IF name \in DOMAIN payload THEN payload[name] ELSE default

\* upsert with ignoreDuplicates: the existing row stays as it is
MergeIgnore(row, payload) == row

\* columns of the payload overwrite the row, the other columns stay
MergeRow(row, payload) ==
    [c \in DOMAIN row |-> IF c \in DOMAIN payload THEN payload[c] ELSE row[c]]

\* the store generates a fresh primary key; the model takes the first free one
FirstFree(used, max) ==
    CHOOSE n \in 1..max : n \notin used /\ \A m \in 1..(n - 1) : m \in used

\* const { userId } = await auth(); if (!userId) throw new Error('Unauthorized')
AuthenticatedAny(userId) == TRUE

Authenticated(userId) == userId # NoUser

Result(op, status) == [op |-> op, status |-> status]

\* a rejected call: no user identity, or an error of the store call
Unauthorized(op) == Result(op, "unauthorized")
Failed(op, code) == [op |-> op, status |-> "error", code |-> code]

\* ------------------------------------------------------------------
\* Derived flags (database triggers on top_priorities / time_blocks)
\* ------------------------------------------------------------------
IsReferencedByPriority(item, prios) ==
    \E p \in prios : p.planner_id = item.planner_id /\ p.brain_dump_item_id = item.id

IsReferencedBySchedule(item, blocks) ==
    \E b \in blocks : b.planner_id = item.planner_id /\ b.brain_dump_item_id = item.id

\* a trigger that only ever sets the flag
PriorityFlagSetOnly(items, prios) ==
    {[it EXCEPT !.is_priority = it.is_priority \/ IsReferencedByPriority(it, prios)]
        : it \in items}

PriorityFlagTrigger(items, prios) ==
    {[it EXCEPT !.is_priority = IsReferencedByPriority(it, prios)] : it \in items}

\* a trigger that flips the flag on every reference added or removed
ScheduleFlagToggle(items, blocks) ==
    {[it EXCEPT !.is_scheduled =
          Cardinality({b \in blocks : b.planner_id = it.planner_id
                                        /\ b.brain_dump_item_id = it.id}) % 2 = 1]
        : it \in items}

ScheduleFlagTrigger(items, blocks) ==
    {[it EXCEPT !.is_scheduled = IsReferencedBySchedule(it, blocks)] : it \in items}

\* a foreign key declared on delete cascade
CascadeItemReference(rows, itemId) ==
    {r \in rows : r.brain_dump_item_id # itemId}

\* foreign key brain_dump_item_id -> brain_dump_items(id) on delete of the item
ClearItemReference(rows, itemId) ==
    {IF r.brain_dump_item_id = itemId THEN [r EXCEPT !.brain_dump_item_id = NULL] ELSE r
        : r \in rows}

\* foreign key check on a written row
ItemRefValid(items, itemId) ==
    itemId = NULL \/ \E it \in items : it.id = itemId

PlannerRefValid(planners, plannerId) ==
    \E pl \in planners : pl.id = plannerId

\* ------------------------------------------------------------------
\* DAILY PLANNER OPERATIONS: getOrCreatePlanner, one store call per step
\* ------------------------------------------------------------------
Reqs == {"r1", "r2"}

IdleReq == [pc |-> "idle", userId |-> NoUser, date |-> NULL, result |-> NULL,
            faulted |-> FALSE, raced |-> FALSE, input |-> NULL, newOrderIndex |-> 0]

PlannerOf(planners, userId, date) ==
    {pl \in planners : pl.user_id = userId /\ pl.planner_date = date}

\* const { userId } = await auth(); if (!userId) throw
GetOrCreatePlannerCall(r, userId, date) ==
    /\ req[r].pc = "idle"
    /\ req' = [req EXCEPT ![r] =
                 [IdleReq EXCEPT !.pc = IF Authenticated(userId) THEN "read" ELSE "unauthorized",
                                 !.userId = userId, !.date = date]]
    /\ UNCHANGED <<store, ret, ui>>

\* first select().single(): its error is not looked at, only the data
GetOrCreatePlannerRead(r, fault) ==
    /\ req[r].pc = "read"
    /\ LET found == PlannerOf(daily_planners, req[r].userId, req[r].date)
       IN  IF ~fault /\ found # {}
           THEN req' = [req EXCEPT ![r].pc = "done",
                                   ![r].result = (CHOOSE pl \in found : TRUE).id]
           ELSE req' = [req EXCEPT ![r].pc = "insert",
                                   ![r].faulted = req[r].faulted \/ fault]
    /\ UNCHANGED <<store, ret, ui>>

\* what a failed insert does next: 23505 re-reads, anything else throws
InsertErrorThrows(code) == "failed"

InsertErrorRetries(code) == IF code = "23505" THEN "reread" ELSE "insert"

InsertErrorNext(code) == IF code = "23505" THEN "reread" ELSE "failed"

\* insert().select().single() and the handling of its error
GetOrCreatePlannerInsert(r, fault) ==
    /\ req[r].pc = "insert"
    /\ LET dup == PlannerOf(daily_planners, req[r].userId, req[r].date) # {}
           newId == PlannerId(FirstFree({n \in 1..Cardinality(PlannerIds) :
                                          \E pl \in daily_planners : pl.id = PlannerId(n)},
                                      Cardinality(PlannerIds)))
       IN  IF fault
           THEN /\ req' = [req EXCEPT ![r].pc = InsertErrorNext("other"),
                                      ![r].faulted = TRUE]
                /\ UNCHANGED daily_planners
           ELSE IF dup
           THEN /\ req' = [req EXCEPT ![r].pc = InsertErrorNext("23505"),
                                      ![r].raced = TRUE]
                /\ UNCHANGED daily_planners
           ELSE /\ daily_planners' = daily_planners \cup
                      {[id |-> newId, user_id |-> req[r].userId,
                        planner_date |-> req[r].date]}
                /\ req' = [req EXCEPT ![r].pc = "done", ![r].result = newId]
    /\ UNCHANGED <<brain_dump_items, top_priorities, time_blocks, ret, ui>>

\* the retry select().single() after a duplicate key error
GetOrCreatePlannerReread(r, fault) ==
    /\ req[r].pc = "reread"
    /\ LET found == PlannerOf(daily_planners, req[r].userId, req[r].date)
       IN  IF fault \/ found = {}
           THEN req' = [req EXCEPT ![r].pc = "failed",
                                   ![r].faulted = req[r].faulted \/ fault]
           ELSE req' = [req EXCEPT ![r].pc = "done",
                                   ![r].result = (CHOOSE pl \in found : TRUE).id]
    /\ UNCHANGED <<store, ret, ui>>

\* the request is over; the slot serves the next request
GetOrCreatePlannerReturn(r) ==
    /\ req[r].pc \in {"done", "failed", "unauthorized"}
    /\ req' = [req EXCEPT ![r] = IdleReq]
    /\ UNCHANGED <<store, ret, ui>>

\* ------------------------------------------------------------------
\* BRAIN DUMP OPERATIONS
\* ------------------------------------------------------------------
MaxOrderIndex(items, plannerId) ==
    LET idx == {it.order_index : it \in {x \in items : x.planner_id = plannerId}}
    IN  IF idx = {} THEN -1 ELSE CHOOSE m \in idx : \A n \in idx : n <= m

\* select order_index ... limit 1 (its error is not looked at), then insert
CreateBrainDumpItem(userId, input, readFault, fault) ==
    LET newOrderIndex ==
            (IF readFault THEN -1 ELSE MaxOrderIndex(brain_dump_items, input.planner_id)) + 1
        orderIndex == Col(input, "order_index", newOrderIndex)
        newId == ItemId(FirstFree({n \in 1..MaxItems :
                                       \E it \in brain_dump_items : it.id = ItemId(n)},
                                   MaxItems))
    IN  /\ Cardinality(brain_dump_items) < MaxItems
        /\ orderIndex <= MaxOrder
        /\ IF ~Authenticated(userId)
           THEN /\ ret' = Unauthorized("createBrainDumpItem")
                /\ UNCHANGED store
           ELSE IF fault \/ ~PlannerRefValid(daily_planners, input.planner_id)
           THEN /\ ret' = Failed("createBrainDumpItem", IF fault THEN "fault" ELSE "23503")
                /\ UNCHANGED store
           ELSE /\ brain_dump_items' = brain_dump_items \cup
                      {[id |-> newId, planner_id |-> input.planner_id,
                        user_id |-> userId, order_index |-> orderIndex,
                        is_priority |-> FALSE, is_scheduled |-> FALSE]}
                /\ ret' = Result("createBrainDumpItem", "ok")
                /\ UNCHANGED <<daily_planners, top_priorities, time_blocks>>
        /\ UNCHANGED <<req, ui>>

\* delete().eq('id', id).eq('user_id', userId); rows that referenced the item
\* keep existing with the reference cleared
DeleteBrainDumpItem(userId, id, fault) ==
    LET gone == {it \in brain_dump_items : it.id = id /\ it.user_id = userId}
        ids == {it.id : it \in gone}
        prios == IF gone = {} THEN top_priorities ELSE ClearItemReference(top_priorities, id)
        blocks == IF gone = {} THEN time_blocks ELSE ClearItemReference(time_blocks, id)
        res == [op |-> "deleteBrainDumpItem", id |-> id,
                refs |-> {r.id : r \in {x \in top_priorities \cup time_blocks :
                                          x.brain_dump_item_id \in ids}}]
    IN  /\ IF ~Authenticated(userId)
           THEN /\ ret' = Unauthorized("deleteBrainDumpItem")
                /\ UNCHANGED store
           ELSE IF fault
           THEN /\ ret' = Failed("deleteBrainDumpItem", "fault")
                /\ UNCHANGED store
           ELSE /\ brain_dump_items' =
                      ScheduleFlagTrigger(
                          PriorityFlagTrigger(brain_dump_items \ gone, prios), blocks)
                /\ top_priorities' = prios
                /\ time_blocks' = blocks
                /\ ret' = res @@ [status |-> "ok"]
                /\ UNCHANGED daily_planners
        /\ UNCHANGED <<req, ui>>

\* update(updates).eq('id', id).eq('user_id', userId).select().single()
UpdateBrainDumpItem(userId, id, updates, fault) ==
    LET hit == {it \in brain_dump_items : it.id = id /\ it.user_id = userId}
        code == IF fault THEN "fault" ELSE IF hit = {} THEN "PGRST116" ELSE NULL
    IN  /\ IF ~Authenticated(userId)
           THEN ret' = Unauthorized("updateBrainDumpItem") /\ UNCHANGED store
           ELSE IF code # NULL
           THEN ret' = Failed("updateBrainDumpItem", code) /\ UNCHANGED store
           ELSE /\ ret' = Result("updateBrainDumpItem", "ok")
                /\ brain_dump_items' = (brain_dump_items \ hit) \cup
                                          {MergeRow(it, updates) : it \in hit}
                /\ UNCHANGED <<daily_planners, top_priorities, time_blocks>>
        /\ UNCHANGED <<req, ui>>

\* createBrainDumpItem as its two store calls. First the read of the highest
\* order_index of the planner (its error is not looked at)
CreateBrainDumpItemRead(r, userId, input, readFault) ==
    /\ req[r].pc = "idle"
    /\ IF ~Authenticated(userId)
       THEN ret' = Unauthorized("createBrainDumpItem") /\ UNCHANGED <<req, ui>>
       ELSE /\ req' = [req EXCEPT ![r] =
                        [IdleReq EXCEPT !.pc = "insertItem", !.userId = userId,
                                        !.input = input,
                                        !.newOrderIndex =
                                            (IF readFault THEN -1
                                             ELSE MaxOrderIndex(brain_dump_items,
                                                                input.planner_id)) + 1]]
            /\ UNCHANGED ret
    /\ UNCHANGED <<store, ui>>

\* then the insert with order_index: input.order_index ?? newOrderIndex
CreateBrainDumpItemInsert(r, fault) ==
    LET input == req[r].input
        newId == ItemId(FirstFree({n \in 1..MaxItems :
                                       \E it \in brain_dump_items : it.id = ItemId(n)},
                                   MaxItems))
    IN  /\ req[r].pc = "insertItem"
        /\ Cardinality(brain_dump_items) < MaxItems
        /\ Col(input, "order_index", req[r].newOrderIndex) <= MaxOrder
        /\ IF fault \/ ~PlannerRefValid(daily_planners, input.planner_id)
           THEN /\ ret' = Failed("createBrainDumpItem", IF fault THEN "fault" ELSE "23503")
                /\ UNCHANGED store
           ELSE /\ brain_dump_items' = brain_dump_items \cup
                      {[id |-> newId, planner_id |-> input.planner_id,
                        user_id |-> req[r].userId,
                        order_index |-> Col(input, "order_index", req[r].newOrderIndex),
                        is_priority |-> FALSE, is_scheduled |-> FALSE]}
                /\ ret' = Result("createBrainDumpItem", "ok")
                /\ UNCHANGED <<daily_planners, top_priorities, time_blocks>>
        /\ req' = [req EXCEPT ![r] = IdleReq]
        /\ UNCHANGED ui

\* the rows after the parallel updates: an update whose store call failed, or
\* whose id and user match no row, changes nothing
ApplyReorder(items, userId, updates, failed) ==
    {IF \E u \in updates : u.id = it.id /\ u.id \notin failed /\ it.user_id = userId
     THEN [it EXCEPT !.order_index =
               (CHOOSE u \in updates : u.id = it.id).order_index]
     ELSE it : it \in items}

\* results.filter((r) => r.error): an update matching no row reports no error
ReorderErrors(updates, failed) == {u \in updates : u.id \in failed}

\* throw new Error('Failed to reorder brain dump items'): the item ids the
\* thrown error names; the message is a fixed text, the errors are only logged
ReorderErrorIds(errors) == {}

\* reorderBrainDumpItems: one update per entry, all issued together, then the
\* error check; an error result records the ids it names (ids) next to the
\* ids whose update failed (failed)
ReorderBrainDumpItems(userId, updates, failed) ==
    /\ IF ~Authenticated(userId)
       THEN ret' = Unauthorized("reorderBrainDumpItems") /\ UNCHANGED store
       ELSE /\ brain_dump_items' = ApplyReorder(brain_dump_items, userId, updates, failed)
            /\ ret' = IF ReorderErrors(updates, failed) # {}
                      THEN Failed("reorderBrainDumpItems", "fault") @@
                             [ids |-> ReorderErrorIds(ReorderErrors(updates, failed)),
                              failed |-> failed]
                      ELSE [op |-> "reorderBrainDumpItems", status |-> "ok",
                            request |-> updates]
            /\ UNCHANGED <<daily_planners, top_priorities, time_blocks>>
    /\ UNCHANGED <<req, ui>>

\* reorderBrainDumpItems of lib/planner-api.ts: the results are not looked at
ReorderBrainDumpItemsLib(userId, updates, failed) ==
    /\ IF ~Authenticated(userId)
       THEN ret' = Unauthorized("reorderBrainDumpItems") /\ UNCHANGED store
       ELSE /\ brain_dump_items' = ApplyReorder(brain_dump_items, userId, updates, failed)
            /\ ret' = [op |-> "reorderBrainDumpItems", status |-> "ok",
                       request |-> updates]
            /\ UNCHANGED <<daily_planners, top_priorities, time_blocks>>
    /\ UNCHANGED <<req, ui>>

\* ------------------------------------------------------------------
\* TOP PRIORITIES OPERATIONS
\* ------------------------------------------------------------------
MaxPriorityRows == Cardinality(Slots) * Cardinality(PlannerIds)

SlotRows(prios, plannerId, slot) ==
    {p \in prios : p.planner_id = plannerId /\ p.priority_slot = slot}

NewPriorityRow(prios, payload) ==
    [id |-> PriorityId(FirstFree({n \in 1..MaxPriorityRows :
                                     \E p \in prios : p.id = PriorityId(n)},
                                 MaxPriorityRows)),
     planner_id |-> payload.planner_id,
     user_id |-> payload.user_id,
     priority_slot |-> payload.priority_slot,
     brain_dump_item_id |-> Col(payload, "brain_dump_item_id", NULL),
     custom_text |-> Col(payload, "custom_text", NULL),
     is_completed |-> Col(payload, "is_completed", FALSE)]

\* a plain insert: the unique (planner_id, priority_slot) key rejects a
\* second row for the slot
InsertPriority(prios, payload) ==
    IF SlotRows(prios, payload.planner_id, payload.priority_slot) # {}
    THEN [rows |-> prios, error |-> "23505"]
    ELSE [rows |-> prios \cup {NewPriorityRow(prios, payload)}, error |-> NULL]

\* an insert on a table without the unique key: always one more row
AppendPriority(prios, payload) ==
    [rows |-> prios \cup {NewPriorityRow(prios, payload)}, error |-> NULL]

\* upsert(payload, { onConflict: 'planner_id,priority_slot' })
UpsertPriority(prios, payload) ==
    LET existing == SlotRows(prios, payload.planner_id, payload.priority_slot)
    IN  IF existing # {}
        THEN [rows |-> (prios \ existing) \cup {MergeRow(p, payload) : p \in existing},
              error |-> NULL]
        ELSE [rows |-> prios \cup {NewPriorityRow(prios, payload)}, error |-> NULL]

\* the store call of upsertTopPriority / swapPriorityItem with its foreign keys
UpsertCall(payload, fault) ==
    IF fault THEN [rows |-> top_priorities, error |-> "fault"]
    ELSE IF ~PlannerRefValid(daily_planners, payload.planner_id)
            \/ ~ItemRefValid(brain_dump_items, Col(payload, "brain_dump_item_id", NULL))
    THEN [rows |-> top_priorities, error |-> "23503"]
    ELSE UpsertPriority(top_priorities, payload)

\* a write to top_priorities went through: rows replaced, trigger run
WritePriorities(rows) ==
    /\ top_priorities' = rows
    /\ brain_dump_items' = PriorityFlagTrigger(brain_dump_items, rows)
    /\ UNCHANGED <<daily_planners, time_blocks>>

UpsertTopPriority(userId, input, fault) ==
    LET res == UpsertCall(input @@ [user_id |-> userId], fault)
    IN  /\ IF ~Authenticated(userId)
           THEN ret' = Unauthorized("upsertTopPriority") /\ UNCHANGED store
           ELSE IF res.error # NULL
           THEN ret' = Failed("upsertTopPriority", res.error) /\ UNCHANGED store
           ELSE ret' = Result("upsertTopPriority", "ok") /\ WritePriorities(res.rows)
        /\ UNCHANGED <<req, ui>>

\* the row swapPriorityItem upserts
SwapPayload(userId, plannerId, prioritySlot, brainDumpItemId) ==
    [planner_id |-> plannerId, user_id |-> userId, priority_slot |-> prioritySlot,
     brain_dump_item_id |-> brainDumpItemId, custom_text |-> NULL]

SwapPriorityItem(userId, plannerId, prioritySlot, brainDumpItemId, fault) ==
    LET res == UpsertCall(SwapPayload(userId, plannerId, prioritySlot, brainDumpItemId), fault)
        before == SlotRows(top_priorities, plannerId, prioritySlot)
        out == [op |-> "swapPriorityItem", status |-> "ok",
                planner |-> plannerId, slot |-> prioritySlot, item |-> brainDumpItemId,
                old |-> IF before = {} THEN "empty"
                        ELSE (CHOOSE p \in before : TRUE).brain_dump_item_id,
                again |-> /\ ret.op = "swapPriorityItem" /\ ret.status = "ok"
                          /\ ret.planner = plannerId /\ ret.slot = prioritySlot
                          /\ ret.item = brainDumpItemId]
    IN  /\ IF ~Authenticated(userId)
           THEN ret' = Unauthorized("swapPriorityItem") /\ UNCHANGED store
           ELSE IF res.error # NULL
           THEN ret' = Failed("swapPriorityItem", res.error) /\ UNCHANGED store
           ELSE ret' = out /\ WritePriorities(res.rows)
        /\ UNCHANGED <<req, ui>>

\* update(updates).eq('id', id).eq('user_id', userId).select().single()
UpdateTopPriority(userId, id, updates, fault) ==
    LET hit == {p \in top_priorities : p.id = id /\ p.user_id = userId}
        code == IF fault THEN "fault"
                ELSE IF ~ItemRefValid(brain_dump_items,
                                      Col(updates, "brain_dump_item_id", NULL)) THEN "23503"
                ELSE IF hit = {} THEN "PGRST116"
                ELSE NULL
    IN  /\ IF ~Authenticated(userId)
           THEN ret' = Unauthorized("updateTopPriority") /\ UNCHANGED store
           ELSE IF code # NULL
           THEN ret' = Failed("updateTopPriority", code) /\ UNCHANGED store
           ELSE /\ ret' = Result("updateTopPriority", "ok")
                /\ WritePriorities((top_priorities \ hit) \cup
                                      {MergeRow(p, updates) : p \in hit})
        /\ UNCHANGED <<req, ui>>

\* delete().eq('id', id).eq('user_id', userId): no error when no row matches
DeleteTopPriority(userId, id, fault) ==
    LET hit == {p \in top_priorities : p.id = id /\ p.user_id = userId}
    IN  /\ IF ~Authenticated(userId)
           THEN ret' = Unauthorized("deleteTopPriority") /\ UNCHANGED store
           ELSE IF fault
           THEN ret' = Failed("deleteTopPriority", "fault") /\ UNCHANGED store
           ELSE /\ ret' = Result("deleteTopPriority", "ok")
                /\ WritePriorities(top_priorities \ hit)
        /\ UNCHANGED <<req, ui>>

\* the unique (planner_id, priority_slot) key: another row of the planner
\* already has the slot
SlotKeyConflict(prios, row, newSlot) ==
    \E q \in prios :
        q.id # row.id /\ q.planner_id = row.planner_id /\ q.priority_slot = newSlot

\* update({ priority_slot }).eq('id').eq('planner_id').eq('user_id'): one
\* request of reorderPrioritySlots; no error when no row matches
UpdatePrioritySlot(prios, userId, plannerId, mapping, fault) ==
    LET hit == {p \in prios : p.id = mapping.id /\ p.planner_id = plannerId
                                /\ p.user_id = userId}
    IN  IF fault THEN [rows |-> prios, error |-> "fault"]
        ELSE IF \E p \in hit : SlotKeyConflict(prios, p, mapping.newSlot)
        THEN [rows |-> prios, error |-> "23505"]
        ELSE [rows |-> (prios \ hit) \cup
                          {[p EXCEPT !.priority_slot = mapping.newSlot] : p \in hit},
              error |-> NULL]

\* the requests of one call reach the store one after the other, in the order
\* of arrival; each is applied or refused on its own
RECURSIVE UpdatePrioritySlots(_, _, _, _, _)
UpdatePrioritySlots(prios, userId, plannerId, arrival, failed) ==
    IF arrival = <<>> THEN [rows |-> prios, errors |-> {}]
    ELSE LET one == UpdatePrioritySlot(prios, userId, plannerId, Head(arrival),
                                       Head(arrival).id \in failed)
             rest == UpdatePrioritySlots(one.rows, userId, plannerId, Tail(arrival), failed)
         IN  [rows |-> rest.rows,
              errors |-> rest.errors \cup
                           (IF one.error = NULL THEN {} ELSE {one.error})]

\* reorderPrioritySlots: one update per mapping entry, all issued together,
\* then the error check; the result records the request and whether the
\* store faulted
ReorderPrioritySlots(userId, plannerId, arrival, failed) ==
    LET res == UpdatePrioritySlots(top_priorities, userId, plannerId, arrival, failed)
        call == [request |-> {arrival[k] : k \in DOMAIN arrival},
                 faulted |-> failed # {}]
    IN  /\ IF ~Authenticated(userId)
           THEN ret' = Unauthorized("reorderPrioritySlots") /\ UNCHANGED store
           ELSE /\ ret' = IF res.errors # {}
                          THEN Failed("reorderPrioritySlots",
                                      IF "23505" \in res.errors THEN "23505" ELSE "fault")
                                 @@ call
                          ELSE Result("reorderPrioritySlots", "ok") @@ call
                /\ WritePriorities(res.rows)
        /\ UNCHANGED <<req, ui>>

\* ------------------------------------------------------------------
\* TIME UTILITIES (a time of day "HH:MM:00" is the pair <<HH, MM>>)
\* ------------------------------------------------------------------
timeToMinutes(time) == time[1] * 60 + time[2]

hasTimeOverlap(newStart, newEnd, existingBlocks) ==
    LET newStartMin == timeToMinutes(newStart)
        newEndMin == timeToMinutes(newEnd)
    IN  \E block \in existingBlocks :
            LET blockStartMin == timeToMinutes(block.start_time)
                blockEndMin == timeToMinutes(block.end_time)
            IN  \/ (newStartMin >= blockStartMin /\ newStartMin < blockEndMin)
                \/ (newEndMin > blockStartMin /\ newEndMin <= blockEndMin)
                \/ (newStartMin <= blockStartMin /\ newEndMin >= blockEndMin)

\* ------------------------------------------------------------------
\* TIME BLOCKS OPERATIONS
\* ------------------------------------------------------------------
\* a write to time_blocks went through: rows replaced, trigger run
WriteTimeBlocks(rows) ==
    /\ time_blocks' = rows
    /\ brain_dump_items' = ScheduleFlagTrigger(brain_dump_items, rows)
    /\ UNCHANGED <<daily_planners, top_priorities>>

\* a create that refuses a block overlapping an existing one
RejectOverlap(blocks, input) ==
    IF hasTimeOverlap(input.start_time, input.end_time,
                      {b \in blocks : b.planner_id = input.planner_id})
    THEN "overlap" ELSE NULL

\* what createTimeBlock checks before the insert: nothing
CreateTimeBlockCheck(blocks, input) == NULL

\* what the deleted block and the blocks left say about its item
DeletedBlockInfo(hit, rest) ==
    LET b == CHOOSE x \in hit : TRUE
        others == {x \in rest : x.brain_dump_item_id = b.brain_dump_item_id}
    IN  [item |-> b.brain_dump_item_id,
         left |-> Cardinality(others),
         overlapped |-> hasTimeOverlap(b.start_time, b.end_time, others)]

\* insert({ ...input, user_id: userId }).select().single()
CreateTimeBlock(userId, input, fault) ==
    LET code == IF fault THEN "fault"
                ELSE IF CreateTimeBlockCheck(time_blocks, input) # NULL
                     THEN CreateTimeBlockCheck(time_blocks, input)
                ELSE IF ~PlannerRefValid(daily_planners, input.planner_id)
                        \/ ~ItemRefValid(brain_dump_items,
                                         Col(input, "brain_dump_item_id", NULL))
                     THEN "23503"
                ELSE NULL
        row == [id |-> BlockId(FirstFree({n \in 1..MaxBlocks :
                                        \E b \in time_blocks : b.id = BlockId(n)},
                                    MaxBlocks)),
                planner_id |-> input.planner_id,
                user_id |-> userId,
                start_time |-> input.start_time,
                end_time |-> input.end_time,
                brain_dump_item_id |-> Col(input, "brain_dump_item_id", NULL),
                custom_text |-> Col(input, "custom_text", NULL)]
    IN  /\ Cardinality(time_blocks) < MaxBlocks
        /\ IF ~Authenticated(userId)
           THEN ret' = Unauthorized("createTimeBlock") /\ UNCHANGED store
           ELSE IF code # NULL
           THEN ret' = Failed("createTimeBlock", code) /\ UNCHANGED store
           ELSE /\ ret' = [op |-> "createTimeBlock", status |-> "ok",
                           overlapped |-> hasTimeOverlap(input.start_time,
                                                         input.end_time, time_blocks)]
                /\ WriteTimeBlocks(time_blocks \cup {row})
        /\ UNCHANGED <<req, ui>>

\* update(updates).eq('id', id).eq('user_id', userId).select().single()
UpdateTimeBlock(userId, id, updates, fault) ==
    LET hit == {b \in time_blocks : b.id = id /\ b.user_id = userId}
        code == IF fault THEN "fault"
                ELSE IF ~ItemRefValid(brain_dump_items,
                                      Col(updates, "brain_dump_item_id", NULL)) THEN "23503"
                ELSE IF hit = {} THEN "PGRST116"
                ELSE NULL
    IN  /\ IF ~Authenticated(userId)
           THEN ret' = Unauthorized("updateTimeBlock") /\ UNCHANGED store
           ELSE IF code # NULL
           THEN ret' = Failed("updateTimeBlock", code) /\ UNCHANGED store
           ELSE /\ ret' = Result("updateTimeBlock", "ok")
                /\ WriteTimeBlocks((time_blocks \ hit) \cup
                                      {MergeRow(b, updates) : b \in hit})
        /\ UNCHANGED <<req, ui>>

\* delete().eq('id', id).eq('user_id', userId): no error when no row matches
DeleteTimeBlock(userId, id, fault) ==
    LET hit == {b \in time_blocks : b.id = id /\ b.user_id = userId}
    IN  /\ IF ~Authenticated(userId)
           THEN ret' = Unauthorized("deleteTimeBlock") /\ UNCHANGED store
           ELSE IF fault
           THEN ret' = Failed("deleteTimeBlock", "fault") /\ UNCHANGED store
           ELSE /\ ret' = IF hit = {} THEN Result("deleteTimeBlock", "ok")
                          ELSE Result("deleteTimeBlock", "ok")
                                 @@ DeletedBlockInfo(hit, time_blocks \ hit)
                /\ WriteTimeBlocks(time_blocks \ hit)
        /\ UNCHANGED <<req, ui>>

\* ------------------------------------------------------------------
\* getFullPlanner: the planner of getOrCreatePlanner, then the three reads
\* and the manual join
\* ------------------------------------------------------------------
\* a read without .order(): the rows in any order
AnyOrder(rows, key) ==
    {s \in [1..Cardinality(rows) -> rows] : \A j, k \in DOMAIN s : s[j] = s[k] => j = k}

\* .order(column, { ascending: true }): the rows as a sequence ascending in
\* key; rows with equal keys come in any order
SortedBy(rows, key) ==
    {s \in [1..Cardinality(rows) -> rows] :
        /\ \A j, k \in DOMAIN s : s[j] = s[k] => j = k
        /\ \A j, k \in DOMAIN s : j < k => key[s[j]] <= key[s[k]]}

\* undefined: no item attached
NoItem == [id |-> NULL]

\* brainDumpMap.get(row.brain_dump_item_id), undefined for a null reference
\* and for an id the map does not have
AttachFirst(row, brainDumpData) ==
    row @@ [brain_dump_item |->
              IF brainDumpData = {} THEN NoItem ELSE CHOOSE it \in brainDumpData : TRUE]

AttachItem(row, brainDumpData) ==
    row @@ [brain_dump_item |->
              IF row.brain_dump_item_id # NULL
                 /\ \E it \in brainDumpData : it.id = row.brain_dump_item_id
              THEN CHOOSE it \in brainDumpData : it.id = row.brain_dump_item_id
              ELSE NoItem]

FullPlannerReads == {"brain_dump_items", "top_priorities", "time_blocks"}

\* the part of getFullPlanner after getOrCreatePlanner has returned the
\* planner: a read that fails yields no rows (data || [])
GetFullPlanner(r, faults) ==
    /\ req[r].pc = "done"
    /\ LET id == req[r].result
           brainDumpData == IF "brain_dump_items" \in faults THEN {}
                            ELSE {it \in brain_dump_items : it.planner_id = id}
           prioritiesData == IF "top_priorities" \in faults THEN {}
                             ELSE {p \in top_priorities : p.planner_id = id}
           timeBlocksData == IF "time_blocks" \in faults THEN {}
                             ELSE {b \in time_blocks : b.planner_id = id}
       IN  \E items \in SortedBy(brainDumpData,
                                  [it \in brainDumpData |-> it.order_index]),
              prios \in SortedBy(prioritiesData,
                                  [p \in prioritiesData |-> p.priority_slot]),
              blocks \in SortedBy(timeBlocksData,
                                   [b \in timeBlocksData |-> timeToMinutes(b.start_time)]) :
               ret' = [op |-> "getFullPlanner", status |-> "ok", id |-> id,
                       user_id |-> req[r].userId,
                       brain_dump_items |-> items,
                       top_priorities |->
                           [k \in DOMAIN prios |-> AttachItem(prios[k], brainDumpData)],
                       time_blocks |->
                           [k \in DOMAIN blocks |-> AttachItem(blocks[k], brainDumpData)]]
    /\ req' = [req EXCEPT ![r] = IdleReq]
    /\ UNCHANGED <<store, ui>>

\* ------------------------------------------------------------------
\* Specification of the planner get-or-create race
\* ------------------------------------------------------------------
NoResult == Result("none", "ok")

\* nothing is dragged, the time block modal is closed, nothing is logged
NoModal == [isModalOpen |-> FALSE, editingBlock |-> NULL, droppedHour |-> NULL]
NoLog == [activeType |-> NULL, overType |-> NULL, message |-> NULL]

NoDrag ==
    /\ isUpdating = FALSE
    /\ draggedId = NULL
    /\ modal = NoModal
    /\ console = NoLog

\* the dashboard is not open
NoClient ==
    /\ planner = [brain_dump_items |-> <<>>, top_priorities |-> <<>>]
    /\ localBrainDump = <<>>
    /\ localPriorities = <<>>
    /\ pending = {}
    /\ gestures = 0
    /\ NoDrag

InitPlanner ==
    /\ daily_planners = {}
    /\ brain_dump_items = {}
    /\ top_priorities = {}
    /\ time_blocks = {}
    /\ ret = NoResult
    /\ req = [r \in Reqs |-> IdleReq]
    /\ NoClient

NextPlanner ==
    \E r \in Reqs :
        \/ \E userId \in Users \cup {NoUser}, date \in Dates :
               GetOrCreatePlannerCall(r, userId, date)
        \/ \E fault \in BOOLEAN : GetOrCreatePlannerRead(r, fault)
        \/ \E fault \in BOOLEAN : GetOrCreatePlannerInsert(r, fault)
        \/ \E fault \in BOOLEAN : GetOrCreatePlannerReread(r, fault)
        \/ GetOrCreatePlannerReturn(r)

SpecPlanner == InitPlanner /\ [][NextPlanner]_vars

Finished(r) == req[r].pc \in {"done", "failed"}

SameKey(r1, r2) ==
    req[r1].userId = req[r2].userId /\ req[r1].date = req[r2].date

\* C3: two getOrCreatePlanner calls for the same (user, date), interleaved in
\* any way and with no store fault in their insert or re-read, both return,
\* both return the same row, and that row is the only planner of the key.
C3_ConcurrentGetOrCreate ==
    \A r1, r2 \in Reqs :
        (r1 # r2 /\ Finished(r1) /\ Finished(r2) /\ SameKey(r1, r2)
            /\ ~req[r1].faulted /\ ~req[r2].faulted)
        => /\ req[r1].pc = "done" /\ req[r2].pc = "done"
           /\ req[r1].result = req[r2].result
           /\ PlannerOf(daily_planners, req[r1].userId, req[r1].date)
                = {pl \in daily_planners : pl.id = req[r1].result}
           /\ Cardinality(PlannerOf(daily_planners, req[r1].userId, req[r1].date)) = 1

\* both calls missed on the first read, one inserted, the other hit the
\* duplicate key and re-read
C3_Witness ==
    \E r1, r2 \in Reqs :
        /\ r1 # r2 /\ SameKey(r1, r2)
        /\ req[r1].pc = "done" /\ req[r2].pc = "done"
        /\ req[r2].raced /\ ~req[r1].raced
        /\ ~req[r1].faulted /\ ~req[r2].faulted

\* ------------------------------------------------------------------
\* Specification of the priority slots of one planner
\* ------------------------------------------------------------------
Planner1 == [id |-> PlannerId(1), user_id |-> "u1", planner_date |-> "2025-06-01"]

ItemRefs == {NULL} \cup ItemIds
TextVals == {NULL} \cup Texts

\* payloads of upsertTopPriority: the either/or columns are optional keys,
\* and a call sets one of them
UpsertInputs ==
    LET key == [planner_id : {Planner1.id}, priority_slot : Slots]
    IN  UNION {
          {k @@ [brain_dump_item_id |-> i] : k \in key, i \in ItemRefs},
          {k @@ [custom_text |-> t] : k \in key, t \in TextVals} }

PriorityUpdates ==
    UNION {
      {[brain_dump_item_id |-> i] : i \in ItemRefs},
      {[custom_text |-> t] : t \in TextVals} }

\* a store fault fails a call whatever its input: one input stands for all
Inputs(fault, S) == IF fault THEN {CHOOSE x \in S : TRUE} ELSE S

\* the items captured on the planner before the priorities are worked on
ItemsOf(pl, n) ==
    {[id |-> ItemId(k), planner_id |-> pl.id, user_id |-> pl.user_id,
      order_index |-> k - 1, is_priority |-> FALSE, is_scheduled |-> FALSE] : k \in 1..n}

InitPriority ==
    /\ daily_planners = {Planner1}
    /\ brain_dump_items = ItemsOf(Planner1, MaxItems)
    /\ top_priorities = {}
    /\ time_blocks = {}
    /\ ret = NoResult
    /\ req = [r \in Reqs |-> IdleReq]
    /\ NoClient

NextPriority ==
    \E userId \in {Planner1.user_id}, fault \in BOOLEAN :
        \/ \E id \in Inputs(fault, ItemIds) : DeleteBrainDumpItem(userId, id, fault)
        \/ \E input \in Inputs(fault, UpsertInputs) :
               UpsertTopPriority(userId, input, fault)
        \/ \E slot \in Inputs(fault, Slots), id \in Inputs(fault, ItemIds) :
               SwapPriorityItem(userId, Planner1.id, slot, id, fault)
        \/ \E id \in Inputs(fault, PriorityIds), updates \in Inputs(fault, PriorityUpdates) :
               UpdateTopPriority(userId, id, updates, fault)
        \/ \E id \in Inputs(fault, PriorityIds) : DeleteTopPriority(userId, id, fault)

SpecPriority == InitPriority /\ [][NextPriority]_vars

\* C1: an item's is_priority flag is true exactly when some priority row of
\* its planner references it, in every state reached by assign, upsert,
\* update and delete of priorities and delete of items.
C1_PriorityFlag ==
    \A it \in brain_dump_items :
        it.is_priority <=>
            (\E p \in top_priorities :
                 p.planner_id = it.planner_id /\ p.brain_dump_item_id = it.id)

\* an item that lost its last priority reference (flag back to false) next to
\* one that is referenced
C1_Witness ==
    /\ ret.op \in {"swapPriorityItem", "deleteTopPriority", "updateTopPriority",
                   "upsertTopPriority"}
    /\ ret.status = "ok"
    /\ \E a, b \in brain_dump_items : a.is_priority /\ ~b.is_priority

\* C4: every (planner, slot) has at most one priority row, and swapPriorityItem
\* fails only on a store fault or an unknown item or planner, never because
\* the slot is occupied.
C4_OneRowPerSlot ==
    /\ \A pl \in daily_planners, slot \in Slots :
           Cardinality(SlotRows(top_priorities, pl.id, slot)) <= 1
    /\ (ret.op = "swapPriorityItem" /\ ret.status = "error")
           => ret.code \in {"fault", "23503"}

\* a successful assignment to a slot that had a row
C4_Witness ==
    /\ ret.op = "swapPriorityItem" /\ ret.status = "ok" /\ ret.old # "empty"
    /\ Cardinality(SlotRows(top_priorities, ret.planner, ret.slot)) = 1

Holds(prios, plannerId, slot, item) ==
    \E p \in SlotRows(prios, plannerId, slot) : p.brain_dump_item_id = item

\* C5: a successful swapPriorityItem of item b onto a slot holding item a,
\* a in no other slot, leaves one row for the slot, referencing b, with
\* a.is_priority false and b.is_priority true.
C5_Reassign ==
    [][(ret'.op = "swapPriorityItem" /\ ret'.status = "ok")
           => \A a \in ItemIds \ {ret'.item} :
                  ( /\ Holds(top_priorities, ret'.planner, ret'.slot, a)
                    /\ \A other \in Slots \ {ret'.slot} :
                           ~Holds(top_priorities, ret'.planner, other, a) )
                  => /\ Cardinality(SlotRows(top_priorities', ret'.planner, ret'.slot)) = 1
                     /\ Holds(top_priorities', ret'.planner, ret'.slot, ret'.item)
                     /\ \E it \in brain_dump_items' : it.id = a /\ ~it.is_priority
                     /\ \E it \in brain_dump_items' :
                            it.id = ret'.item /\ it.is_priority]_vars

\* item b has just replaced another item on a slot
C5_Witness ==
    /\ ret.op = "swapPriorityItem" /\ ret.status = "ok"
    /\ ret.old \in ItemIds \ {ret.item}
    /\ \E it \in brain_dump_items : it.id = ret.old /\ ~it.is_priority
    /\ \E it \in brain_dump_items : it.id = ret.item /\ it.is_priority

\* C6: a successful swapPriorityItem that repeats the previous successful
\* swapPriorityItem (same planner, slot and item) changes no priority row and
\* no item.
C6_SwapIdempotent ==
    [][(ret'.op = "swapPriorityItem" /\ ret'.status = "ok" /\ ret'.again)
           => /\ top_priorities' = top_priorities
              /\ brain_dump_items' = brain_dump_items]_vars

\* the same assignment was made twice in a row
C6_Witness ==
    /\ ret.op = "swapPriorityItem" /\ ret.status = "ok" /\ ret.again
    /\ Holds(top_priorities, ret.planner, ret.slot, ret.item)

\* ------------------------------------------------------------------
\* Specification of the schedule of one planner
\* ------------------------------------------------------------------
\* 09:00-10:00 and 09:30-10:30 overlap
TimeRanges == {<<(<<9, 0>>), (<<10, 0>>)>>, <<(<<9, 30>>), (<<10, 30>>)>>}

BlockInputs ==
    LET key == {[planner_id |-> Planner1.id, start_time |-> r[1], end_time |-> r[2]]
                   : r \in TimeRanges}
    IN  UNION {
          {k @@ [brain_dump_item_id |-> i] : k \in key, i \in ItemIds},
          {k @@ [custom_text |-> t] : k \in key, t \in Texts} }

BlockUpdates ==
    UNION {
      {[start_time |-> r[1], end_time |-> r[2]] : r \in TimeRanges},
      {[brain_dump_item_id |-> i] : i \in ItemRefs},
      {[custom_text |-> t] : t \in TextVals},
      {[brain_dump_item_id |-> i, custom_text |-> t] : i \in ItemRefs, t \in TextVals} }

NextSchedule ==
    \E userId \in {Planner1.user_id}, fault \in BOOLEAN :
        \/ \E input \in Inputs(fault, BlockInputs) : CreateTimeBlock(userId, input, fault)
        \/ \E id \in Inputs(fault, BlockIds), updates \in Inputs(fault, BlockUpdates) :
               UpdateTimeBlock(userId, id, updates, fault)
        \/ \E id \in Inputs(fault, BlockIds) : DeleteTimeBlock(userId, id, fault)
        \/ \E id \in Inputs(fault, ItemIds) : DeleteBrainDumpItem(userId, id, fault)

SpecSchedule == InitPriority /\ [][NextSchedule]_vars

\* C2: an item's is_scheduled flag is true exactly when some time block
\* references it, in every state reached by create, update and delete of
\* time blocks.
C2_ScheduleFlag ==
    \A it \in brain_dump_items :
        it.is_scheduled <=> (\E b \in time_blocks : b.brain_dump_item_id = it.id)

\* an update has moved or cleared a reference: one item scheduled, one not
C2_Witness ==
    /\ ret.op = "updateTimeBlock" /\ ret.status = "ok"
    /\ \E a, b \in brain_dump_items : a.is_scheduled /\ ~b.is_scheduled

RefCount(blocks, itemId) ==
    Cardinality({b \in blocks : b.brain_dump_item_id = itemId})

\* C7: createTimeBlock is never refused because the new block overlaps
\* another one; a deleteTimeBlock that removes one of several blocks of an
\* item leaves the item's is_scheduled true, and one that removes the item's
\* only block makes it false.
C7_SharedItemBlocks ==
    [][/\ (ret'.op = "createTimeBlock" /\ ret'.status = "error")
              => ret'.code \in {"fault", "23503"}
       /\ (ret'.op = "deleteTimeBlock" /\ ret'.status = "ok")
              => \A it \in brain_dump_items' :
                     /\ (RefCount(time_blocks, it.id) >= 2
                           /\ RefCount(time_blocks', it.id) >= 1) => it.is_scheduled
                     /\ (RefCount(time_blocks, it.id) = 1
                           /\ RefCount(time_blocks', it.id) = 0) => ~it.is_scheduled]_vars

\* one of two overlapping blocks of an item was deleted: the item stays
\* scheduled
C7_Witness ==
    /\ ret.op = "deleteTimeBlock" /\ ret.status = "ok"
    /\ "item" \in DOMAIN ret /\ ret.item # NULL
    /\ ret.left = 1 /\ ret.overlapped
    /\ \E it \in brain_dump_items : it.id = ret.item /\ it.is_scheduled

\* ------------------------------------------------------------------
\* Specification of item deletion under references
\* ------------------------------------------------------------------
\* blocks that reference an item, all on 09:00-10:00
RefBlockInputs ==
    {input \in BlockInputs :
        "brain_dump_item_id" \in DOMAIN input /\ input.start_time = <<9, 0>>}

NextRefs ==
    \E userId \in {Planner1.user_id}, fault \in BOOLEAN :
        \/ \E slot \in Inputs(fault, Slots), id \in Inputs(fault, ItemIds) :
               SwapPriorityItem(userId, Planner1.id, slot, id, fault)
        \/ \E input \in Inputs(fault, RefBlockInputs) :
               CreateTimeBlock(userId, input, fault)
        \/ \E id \in Inputs(fault, ItemIds) : DeleteBrainDumpItem(userId, id, fault)

SpecRefs == InitPriority /\ [][NextRefs]_vars

Ids(rows) == {r.id : r \in rows}

\* C8: a successful deleteBrainDumpItem removes the item and nothing else:
\* the priority rows and the time block rows are the same rows as before,
\* those that referenced the item now with a null reference.
C8_DeleteItemKeepsRows ==
    [][(ret'.op = "deleteBrainDumpItem" /\ ret'.status = "ok")
           => /\ Ids(top_priorities') = Ids(top_priorities)
              /\ Ids(time_blocks') = Ids(time_blocks)
              /\ Ids(brain_dump_items') = Ids(brain_dump_items) \ {ret'.id}
              /\ \A r \in top_priorities' \cup time_blocks' :
                     r.brain_dump_item_id # ret'.id
              /\ \A r \in top_priorities \cup time_blocks :
                     r.brain_dump_item_id = ret'.id
                       => \E q \in top_priorities' \cup time_blocks' :
                              q = [r EXCEPT !.brain_dump_item_id = NULL]]_vars

\* the deleted item was referenced by a priority and by a time block, and both
\* rows are still there
C8_Witness ==
    /\ ret.op = "deleteBrainDumpItem" /\ ret.status = "ok"
    /\ \E p \in top_priorities, b \in time_blocks :
           /\ {p.id, b.id} \subseteq ret.refs
           /\ p.brain_dump_item_id = NULL /\ b.brain_dump_item_id = NULL
    /\ \A it \in brain_dump_items : it.id # ret.id

\* ------------------------------------------------------------------
\* Specification of upserts on the priority slots
\* ------------------------------------------------------------------
NextUpsert ==
    \E userId \in {Planner1.user_id}, fault \in BOOLEAN :
        \/ \E input \in Inputs(fault, UpsertInputs) :
               UpsertTopPriority(userId, input, fault)
        \/ \E slot \in Inputs(fault, Slots), id \in Inputs(fault, ItemIds) :
               SwapPriorityItem(userId, Planner1.id, slot, id, fault)

SpecUpsert == InitPriority /\ [][NextUpsert]_vars

\* C9: no priority row has both an item reference and custom text.
C9_EitherOr ==
    \A p \in top_priorities : p.brain_dump_item_id = NULL \/ p.custom_text = NULL

\* ------------------------------------------------------------------
\* Specification of item ordering, two users
\* ------------------------------------------------------------------
Planner2 == [id |-> PlannerId(2), user_id |-> "u2", planner_date |-> "2025-06-01"]

\* an id no row has
AbsentItemId == ItemId(MaxItems + 1)

Orders == 0..MaxOrder

\* reorder requests: at most MaxReorder entries, one per id
ReorderRequests ==
    {r \in SUBSET [id : ItemIds \cup {AbsentItemId}, order_index : Orders] :
        /\ Cardinality(r) <= MaxReorder
        /\ \A u, v \in r : u.id = v.id => u = v}

InitReorder ==
    /\ daily_planners = {Planner1, Planner2}
    /\ brain_dump_items = {}
    /\ top_priorities = {}
    /\ time_blocks = {}
    /\ ret = NoResult
    /\ req = [r \in Reqs |-> IdleReq]
    /\ NoClient

NextReorder ==
    \E userId \in Users :
        \/ \E pl \in {Planner1.id, Planner2.id}, readFault, fault \in BOOLEAN :
               CreateBrainDumpItem(userId, [planner_id |-> pl], readFault, fault)
        \/ \E id \in ItemIds, fault \in BOOLEAN : DeleteBrainDumpItem(userId, id, fault)
        \/ \E id \in ItemIds, order \in Orders, fault \in BOOLEAN :
               UpdateBrainDumpItem(userId, id, [order_index |-> order], fault)
        \/ \E updates \in ReorderRequests :
               \E failed \in SUBSET {u.id : u \in updates} :
                   ReorderBrainDumpItems(userId, updates, failed)
        \/ \E updates \in ReorderRequests :
               \E failed \in SUBSET {u.id : u \in updates} :
                   ReorderBrainDumpItemsLib(userId, updates, failed)

SpecReorder == InitReorder /\ [][NextReorder]_vars

\* C10: when reorderBrainDumpItems returns success, every requested update
\* took effect: each requested id is a row with the requested order_index.
C10_ReorderAllOrError ==
    (ret.op = "reorderBrainDumpItems" /\ ret.status = "ok")
        => \A u \in ret.request :
               \E it \in brain_dump_items :
                   it.id = u.id /\ it.order_index = u.order_index

\* C11: when reorderBrainDumpItems fails because some of its row updates
\* failed, the error it returns names exactly the ids whose update failed.
C11_ReorderErrorNamesIds ==
    (ret.op = "reorderBrainDumpItems" /\ ret.status = "error" /\ ret.code = "fault")
        => ret.ids = ret.failed

\* ------------------------------------------------------------------
\* Specification of the reordering of priority slots
\* ------------------------------------------------------------------
SlotMappings == [id : PriorityIds, newSlot : Slots]

\* the mapping entries of one call in their order of arrival at the store:
\* at most MaxReorder entries, one per priority id
SlotArrivals ==
    {a \in UNION {[1..n -> SlotMappings] : n \in 1..MaxReorder} :
        \A j, k \in DOMAIN a : a[j].id = a[k].id => j = k}

NextSlots ==
    \E userId \in {Planner1.user_id} :
        \/ \E fault \in BOOLEAN :
               \E slot \in Inputs(fault, Slots), id \in Inputs(fault, ItemIds) :
                   SwapPriorityItem(userId, Planner1.id, slot, id, fault)
        \/ \E fault \in BOOLEAN :
               \E id \in Inputs(fault, PriorityIds) : DeleteTopPriority(userId, id, fault)
        \/ \E arrival \in SlotArrivals :
               \E failed \in SUBSET {arrival[k].id : k \in DOMAIN arrival} :
                   ReorderPrioritySlots(userId, Planner1.id, arrival, failed)

SpecSlots == InitPriority /\ [][NextSlots]_vars

\* the request that exchanges the slots of rows p and q
SwapRequest(p, q) ==
    {[id |-> p.id, newSlot |-> q.priority_slot], [id |-> q.id, newSlot |-> p.priority_slot]}

\* C12: reorderPrioritySlots swapping two occupied slots applies both row
\* updates together: no two rows of a planner ever share a slot, never only
\* one of the two updates is applied, and a call the store does not fault
\* succeeds with the two rows having exchanged slots.
C12_SlotSwapTogether ==
    [][\A p, q \in top_priorities :
           ( /\ p.id # q.id /\ p.planner_id = q.planner_id
             /\ ret'.op = "reorderPrioritySlots"
             /\ ret'.status \in {"ok", "error"}
             /\ ret'.request = SwapRequest(p, q) )
           => /\ \A a, b \in top_priorities' :
                     (a.planner_id = b.planner_id /\ a.priority_slot = b.priority_slot)
                         => a = b
              /\ LET p2 == CHOOSE r \in top_priorities' : r.id = p.id
                     q2 == CHOOSE r \in top_priorities' : r.id = q.id
                 IN  /\ (p2.priority_slot = q.priority_slot)
                           <=> (q2.priority_slot = p.priority_slot)
                     /\ ~ret'.faulted
                           => /\ ret'.status = "ok"
                              /\ p2.priority_slot = q.priority_slot
                              /\ q2.priority_slot = p.priority_slot]_vars

\* ------------------------------------------------------------------
\* Specification of the calls of a request without a user identity
\* ------------------------------------------------------------------
\* one call of each core operation by userId (store faults aside), on the
\* first slot, the first time range and a one-entry reorder
Calls(userId) ==
    \/ \E date \in Dates : GetOrCreatePlannerCall("r1", userId, date)
    \/ CreateBrainDumpItem(userId, [planner_id |-> Planner1.id], FALSE, FALSE)
    \/ \E id \in ItemIds : UpdateBrainDumpItem(userId, id, [order_index |-> 0], FALSE)
    \/ \E id \in ItemIds : DeleteBrainDumpItem(userId, id, FALSE)
    \/ \E id \in ItemIds :
           ReorderBrainDumpItems(userId, {[id |-> id, order_index |-> 1]}, {})
    \/ \E t \in Texts :
           UpsertTopPriority(userId, [planner_id |-> Planner1.id, priority_slot |-> 2,
                                      custom_text |-> t], FALSE)
    \/ \E id \in PriorityIds, t \in Texts :
           UpdateTopPriority(userId, id, [custom_text |-> t], FALSE)
    \/ \E id \in PriorityIds : DeleteTopPriority(userId, id, FALSE)
    \/ \E id \in ItemIds : SwapPriorityItem(userId, Planner1.id, 1, id, FALSE)
    \/ \E id \in PriorityIds :
           ReorderPrioritySlots(userId, Planner1.id, <<[id |-> id, newSlot |-> 3]>>, {})
    \/ \E input \in RefBlockInputs : CreateTimeBlock(userId, input, FALSE)
    \/ \E id \in BlockIds, t \in Texts :
           UpdateTimeBlock(userId, id, [custom_text |-> t], FALSE)
    \/ \E id \in BlockIds : DeleteTimeBlock(userId, id, FALSE)

\* the store calls of a getOrCreatePlanner / getFullPlanner request
PlannerSteps ==
    \/ \E fault \in BOOLEAN : GetOrCreatePlannerRead("r1", fault)
    \/ \E fault \in BOOLEAN : GetOrCreatePlannerInsert("r1", fault)
    \/ \E fault \in BOOLEAN : GetOrCreatePlannerReread("r1", fault)
    \/ GetOrCreatePlannerReturn("r1")
    \/ GetFullPlanner("r1", {})

\* the calls of the signed-in user that fill and empty the store
Populate(userId) ==
    \/ \E date \in Dates : GetOrCreatePlannerCall("r1", userId, date)
    \/ \E id \in ItemIds : SwapPriorityItem(userId, Planner1.id, 1, id, FALSE)
    \/ \E input \in RefBlockInputs : CreateTimeBlock(userId, input, FALSE)
    \/ \E id \in ItemIds : DeleteBrainDumpItem(userId, id, FALSE)

NextAuth ==
    \/ Calls(NoUser)
    \/ Populate(Planner1.user_id)
    \/ PlannerSteps

SpecAuth == InitPriority /\ [][NextAuth]_vars

\* C13: a call of any core operation with no user identity fails with
\* Unauthorized and leaves the store as it was, and such a request never
\* gets to a store read or write of getOrCreatePlanner / getFullPlanner.
C13_Unauthenticated ==
    /\ [][Calls(NoUser)
             => /\ UNCHANGED store
                /\ \/ ret'.status = "unauthorized"
                   \/ \E r \in Reqs : req'[r].pc = "unauthorized" /\ ret' = ret]_vars
    /\ [](\A r \in Reqs :
             (req[r].pc # "idle" /\ req[r].userId = NoUser) => req[r].pc = "unauthorized")

\* an unauthenticated call was refused on a store that holds priorities and
\* time blocks
C13_Witness ==
    /\ ret.status = "unauthorized"
    /\ ret.op \in {"deleteBrainDumpItem", "deleteTopPriority", "deleteTimeBlock",
                   "reorderPrioritySlots", "swapPriorityItem"}
    /\ top_priorities # {} /\ time_blocks # {} /\ brain_dump_items # {}

\* ------------------------------------------------------------------
\* Specification of reading the full planner back
\* ------------------------------------------------------------------
InitFull ==
    /\ daily_planners = {Planner1, Planner2}
    /\ brain_dump_items = ItemsOf(Planner1, MaxItems)
    /\ top_priorities = {}
    /\ time_blocks = {}
    /\ ret = NoResult
    /\ req = [r \in Reqs |-> IdleReq]
    /\ NoClient

\* the planner exists and is read back after each write; items are deleted,
\* and captured on the other planner; one time block at a time
NextFull ==
    \E userId \in {Planner1.user_id} :
        \/ \E date \in Dates : GetOrCreatePlannerCall("r1", userId, date)
        \/ GetOrCreatePlannerRead("r1", FALSE)
        \/ \E faults \in SUBSET FullPlannerReads : GetFullPlanner("r1", faults)
        \/ CreateBrainDumpItem(userId, [planner_id |-> Planner2.id], FALSE, FALSE)
        \/ \E id \in ItemIds : DeleteBrainDumpItem(userId, id, FALSE)
        \/ \E id \in ItemIds : SwapPriorityItem(userId, Planner1.id, 1, id, FALSE)
        \/ \E input \in RefBlockInputs :
               time_blocks = {} /\ CreateTimeBlock(userId, input, FALSE)

SpecFull == InitFull /\ [][NextFull]_vars

Range(s) == {s[k] : k \in DOMAIN s}

\* C14: in a planner returned by getFullPlanner, every priority and time
\* block with a non-null item reference carries the item of that id from the
\* returned items, or nothing when the returned items have no such id; the
\* call does not fail on such a reference.
C14_JoinResolves ==
    ret.op = "getFullPlanner"
        => /\ ret.status = "ok"
           /\ \A row \in Range(ret.top_priorities) \cup Range(ret.time_blocks) :
                  row.brain_dump_item_id # NULL
                      => LET same == {it \in Range(ret.brain_dump_items) :
                                         it.id = row.brain_dump_item_id}
                         IN  IF same = {} THEN row.brain_dump_item = NoItem
                             ELSE row.brain_dump_item \in same

\* a returned planner with a priority whose item is not among the returned
\* items (nothing attached) and a time block whose item is (attached)
C14_Witness ==
    /\ ret.op = "getFullPlanner" /\ ret.status = "ok"
    /\ \E p \in Range(ret.top_priorities) :
           p.brain_dump_item_id # NULL /\ p.brain_dump_item = NoItem
    /\ \E b \in Range(ret.time_blocks) :
           b.brain_dump_item_id # NULL /\ b.brain_dump_item.id = b.brain_dump_item_id

\* ------------------------------------------------------------------
\* Specification of reordering the items and reading them back
\* ------------------------------------------------------------------
\* what handleBrainDumpReorder sends: every item of the list with its new
\* position as order_index
PositionRequests ==
    {{[id |-> f[k], order_index |-> k - 1] : k \in DOMAIN f} :
        f \in {g \in UNION {[1..n -> ItemIds] : n \in 1..MaxItems} :
                  \A j, k \in DOMAIN g : g[j] = g[k] => j = k}}

NextOrder ==
    \E userId \in {Planner1.user_id} :
        \/ \E date \in Dates : GetOrCreatePlannerCall("r1", userId, date)
        \/ GetOrCreatePlannerRead("r1", FALSE)
        \/ \E faults \in SUBSET {"brain_dump_items"} : GetFullPlanner("r1", faults)
        \/ \E id \in ItemIds : DeleteBrainDumpItem(userId, id, FALSE)
        \/ \E updates \in PositionRequests :
               \E failed \in SUBSET {u.id : u \in updates} :
                   ReorderBrainDumpItems(userId, updates, failed)

SpecOrder == InitPriority /\ [][NextOrder]_vars

\* the ids of a sequence of rows, in order
IdsInOrder(rows) == [k \in DOMAIN rows |-> rows[k].id]

\* C15: a getFullPlanner that follows a successful reorderBrainDumpItems
\* (distinct order_index values, no write in between) returns the reordered
\* items in ascending order of the requested values.
C15_ReorderRoundTrip ==
    [][( /\ ret.op = "reorderBrainDumpItems" /\ ret.status = "ok"
         /\ \A u, v \in ret.request : u.order_index = v.order_index => u = v
         /\ ret'.op = "getFullPlanner" )
           => LET got == ret'.brain_dump_items
              IN  \A j, k \in DOMAIN got :
                      \A u, v \in ret.request :
                          (u.id = got[j].id /\ v.id = got[k].id
                             /\ u.order_index < v.order_index) => j < k]_vars

\* the items were read back with the last captured item first: the order a
\* reorder asked for
C15_Witness ==
    /\ ret.op = "getFullPlanner" /\ ret.status = "ok"
    /\ Len(ret.brain_dump_items) = MaxItems
    /\ ret.brain_dump_items[1].id = ItemId(MaxItems)
    /\ ret.brain_dump_items[1].order_index < ret.brain_dump_items[2].order_index

\* ------------------------------------------------------------------
\* Specification of one user's calls next to another user's rows
\* ------------------------------------------------------------------
\* the other user's planner has items captured, the first one on slot 1
InitIsolation ==
    /\ daily_planners = {Planner1, Planner2}
    /\ top_priorities =
          {[id |-> PriorityId(1), planner_id |-> Planner2.id, user_id |-> Planner2.user_id,
            priority_slot |-> 1, brain_dump_item_id |-> ItemId(1), custom_text |-> NULL,
            is_completed |-> FALSE]}
    /\ brain_dump_items = PriorityFlagTrigger(ItemsOf(Planner2, MaxItems - 1), top_priorities)
    /\ time_blocks = {}
    /\ ret = NoResult
    /\ req = [r \in Reqs |-> IdleReq]
    /\ NoClient

\* the calls of the user of Planner1
NextIsolation ==
    \E userId \in {Planner1.user_id} :
        \/ \E pl \in {Planner1.id, Planner2.id} :
               CreateBrainDumpItem(userId, [planner_id |-> pl], FALSE, FALSE)
        \/ \E id \in ItemIds : UpdateBrainDumpItem(userId, id, [order_index |-> 0], FALSE)
        \/ \E id \in ItemIds : DeleteBrainDumpItem(userId, id, FALSE)
        \/ \E id \in ItemIds, order \in Orders :
               ReorderBrainDumpItems(userId, {[id |-> id, order_index |-> order]}, {})
        \/ \E pl \in {Planner1.id, Planner2.id}, id \in ItemIds :
               SwapPriorityItem(userId, pl, 1, id, FALSE)
        \/ \E id \in PriorityIds, t \in Texts :
               UpdateTopPriority(userId, id, [custom_text |-> t], FALSE)
        \/ \E pl \in {Planner1.id, Planner2.id}, t \in Texts :
               CreateTimeBlock(userId, [planner_id |-> pl, start_time |-> <<9, 0>>,
                                        end_time |-> <<10, 0>>, custom_text |-> t], FALSE)
        \/ \E id \in BlockIds, t \in Texts :
               UpdateTimeBlock(userId, id, [custom_text |-> t], FALSE)
        \/ \E id \in BlockIds : DeleteTimeBlock(userId, id, FALSE)

SpecIsolation == InitIsolation /\ [][NextIsolation]_vars

OwnedBy(rows, userId) == {r \in rows : r.user_id = userId}

UnderOwnPlanner(rows) ==
    \A r \in rows : \E pl \in daily_planners :
        pl.id = r.planner_id /\ pl.user_id = r.user_id

\* C16: a call of one user leaves every row of another user as it was, puts
\* no row under another user's planner, and does not return success when it
\* names a row of another user.
C16_Isolation ==
    [][LET other == Planner2.user_id
       IN  /\ OwnedBy(brain_dump_items', other) = OwnedBy(brain_dump_items, other)
           /\ OwnedBy(top_priorities', other) = OwnedBy(top_priorities, other)
           /\ OwnedBy(time_blocks', other) = OwnedBy(time_blocks, other)
           /\ UnderOwnPlanner(brain_dump_items' \cup top_priorities' \cup time_blocks')
           /\ (ret'.op = "deleteBrainDumpItem" /\ ret'.status = "ok")
                  => ret'.id \notin {it.id : it \in OwnedBy(brain_dump_items, other)}]_vars

\* ------------------------------------------------------------------
\* Specification of concurrent captures and reorders on one planner
\* ------------------------------------------------------------------
InitSequence ==
    /\ daily_planners = {Planner1}
    /\ brain_dump_items = {}
    /\ top_priorities = {}
    /\ time_blocks = {}
    /\ ret = NoResult
    /\ req = [r \in Reqs |-> IdleReq]
    /\ NoClient

\* two requests at a time capture items without an explicit order_index; the
\* list is reordered by position and items are deleted
NextSequence ==
    \E userId \in {Planner1.user_id} :
        \/ \E r \in Reqs :
               /\ Cardinality(brain_dump_items) < MaxItems
               /\ CreateBrainDumpItemRead(r, userId, [planner_id |-> Planner1.id], FALSE)
        \/ \E r \in Reqs : CreateBrainDumpItemInsert(r, FALSE)
        \/ \E id \in ItemIds : DeleteBrainDumpItem(userId, id, FALSE)
        \/ \E updates \in PositionRequests : ReorderBrainDumpItems(userId, updates, {})

SpecSequence == InitSequence /\ [][NextSequence]_vars

\* C17: the order_index values of the items of a planner are pairwise
\* different.
C17_UniqueOrderIndex ==
    \A a, b \in brain_dump_items :
        (a.planner_id = b.planner_id /\ a.order_index = b.order_index) => a = b

\* ------------------------------------------------------------------
\* Specification of the start and end times of time blocks
\* ------------------------------------------------------------------
minutesToTime(minutes) == <<minutes \div 60, minutes % 60>>

Times == {<<9, 0>>, <<9, 30>>, <<10, 0>>}

\* the part of the day the blocks of this specification stay in
InDay(blocks) ==
    \A b \in blocks : /\ timeToMinutes(b.start_time) \in 540..630
                       /\ timeToMinutes(b.end_time) \in 540..630

Min(a, b) == IF a <= b THEN a ELSE b
Max(a, b) == IF a >= b THEN a ELSE b

\* TimeBlockModal handleSubmit, then handleCreateTimeBlock: a form with
\* startTime >= endTime is refused before any call
ModalCreate(userId, startTime, endTime, text) ==
    /\ ~(timeToMinutes(startTime) >= timeToMinutes(endTime))
    /\ CreateTimeBlock(userId, [planner_id |-> Planner1.id, start_time |-> startTime,
                                end_time |-> endTime, custom_text |-> text], FALSE)

\* TimeBlockModal handleSubmit, then handleUpdateTimeBlock of the edited block
ModalUpdate(userId, id, startTime, endTime, text) ==
    /\ ~(timeToMinutes(startTime) >= timeToMinutes(endTime))
    /\ UpdateTimeBlock(userId, id, [start_time |-> startTime, end_time |-> endTime,
                                    brain_dump_item_id |-> NULL, custom_text |-> text],
                       FALSE)

\* handleResizeMove / handleResizeEnd: one edge of the block dragged by
\* snappedDelta minutes, kept 15 minutes from the other edge
ResizeBlock(userId, id, resizeHandle, snappedDelta) ==
    \E block \in time_blocks :
        /\ block.id = id
        /\ LET originalStartMinutes == timeToMinutes(block.start_time)
               originalEndMinutes == timeToMinutes(block.end_time)
               tempStartTime ==
                   IF resizeHandle = "top"
                   THEN minutesToTime(Max(0, Min(originalStartMinutes + snappedDelta,
                                                 originalEndMinutes - 15)))
                   ELSE block.start_time
               tempEndTime ==
                   IF resizeHandle = "bottom"
                   THEN minutesToTime(Max(originalStartMinutes + 15,
                                          Min(originalEndMinutes + snappedDelta, 1440)))
                   ELSE block.end_time
           IN  /\ tempStartTime # block.start_time \/ tempEndTime # block.end_time
               /\ UpdateTimeBlock(userId, id, [start_time |-> tempStartTime,
                                               end_time |-> tempEndTime], FALSE)

NextTimes ==
    \E userId \in {Planner1.user_id} :
        \/ \E startTime, endTime \in Times, t \in Texts :
               ModalCreate(userId, startTime, endTime, t)
        \/ \E id \in BlockIds, startTime, endTime \in Times, t \in Texts :
               ModalUpdate(userId, id, startTime, endTime, t)
        \/ \E id \in BlockIds, resizeHandle \in {"top", "bottom"},
                 snappedDelta \in {-30, -15, 15, 30} :
               ResizeBlock(userId, id, resizeHandle, snappedDelta) /\ InDay(time_blocks')
        \/ \E startTime, endTime \in Times, t \in Texts :
               CreateTimeBlock(userId, [planner_id |-> Planner1.id, start_time |-> startTime,
                                        end_time |-> endTime, custom_text |-> t], FALSE)
        \/ \E id \in BlockIds, time \in Times :
               \/ UpdateTimeBlock(userId, id, [start_time |-> time], FALSE)
               \/ UpdateTimeBlock(userId, id, [end_time |-> time], FALSE)
        \/ \E id \in BlockIds : DeleteTimeBlock(userId, id, FALSE)

SpecTimes == InitPriority /\ [][NextTimes]_vars

\* C18: every time block ends strictly after it starts.
C18_EndAfterStart ==
    \A b \in time_blocks : timeToMinutes(b.end_time) > timeToMinutes(b.start_time)

\* ------------------------------------------------------------------
\* DASHBOARD CONTENT COMPONENT: the planner prop, the local state and the
\* handlers with optimistic updates
\* ------------------------------------------------------------------
MaxPending == 2
MaxGestures == 3

\* what the dashboard page passes as the planner prop: the result of
\* getFullPlanner for the planner, here its items and priorities
FullPlanners(pl) ==
    LET brainDumpData == {it \in brain_dump_items : it.planner_id = pl.id}
        prioritiesData == {p \in top_priorities : p.planner_id = pl.id}
    IN  {[id |-> pl.id, user_id |-> pl.user_id,
          brain_dump_items |-> items,
          top_priorities |-> [k \in DOMAIN prios |-> AttachItem(prios[k], brainDumpData)]] :
            items \in SortedBy(brainDumpData, [it \in brainDumpData |-> it.order_index]),
            prios \in SortedBy(prioritiesData, [p \in prioritiesData |-> p.priority_slot])}

\* useEffect on the planner prop: the items with is_priority recomputed from
\* the priorities of the prop
SyncedBrainDump(prop) ==
    LET priorityItemIds == {prop.top_priorities[k].brain_dump_item_id :
                               k \in {j \in DOMAIN prop.top_priorities :
                                        prop.top_priorities[j].brain_dump_item_id # NULL}}
    IN  [k \in DOMAIN prop.brain_dump_items |->
            [prop.brain_dump_items[k] EXCEPT !.is_priority =
                 prop.brain_dump_items[k].id \in priorityItemIds]]

\* router.refresh() has run: a new planner prop arrives and the effect copies
\* it into the local state
Refresh ==
    /\ \E pl \in {d \in daily_planners : d.id = planner.id} :
         \E prop \in FullPlanners(pl) :
           /\ prop # planner
           /\ planner' = prop
           /\ localBrainDump' = SyncedBrainDump(prop)
           /\ localPriorities' = prop.top_priorities
    /\ UNCHANGED <<store, ret, req, pending, gestures, isUpdating, dnd>>

\* array.find / findIndex: the first of the indices passing the test, 0 if none
FindIndex(passing) ==
    IF passing = {} THEN 0 ELSE CHOOSE k \in passing : \A j \in passing : k <= j

\* `temp-${Date.now()}`: the clock of the model is the number of the gesture
TempId(now) == "temp-" \o ToString(now)

\* a handler has issued its server call and awaits it; the call keeps the
\* planner prop of the render it was started in, and is the n-th one started
Await(call) ==
    /\ Cardinality(pending) < MaxPending
    /\ gestures < MaxGestures
    /\ gestures' = gestures + 1
    /\ pending' = pending \cup {call @@ [planner |-> planner, n |-> gestures + 1]}

\* a failed call stays in flight and is made again
RetryOnError(call, error) == IF error THEN pending ELSE pending \ {call}

\* after the await, in try or in catch: the call is no longer in flight
AfterAwait(call, error) == pending \ {call}

\* the old item keeps its flag only when no priority references it any more
NotInPriorities(updatedPriorities, id) == FALSE

\* updatedPriorities.some((p) => p.brain_dump_item_id === item.id)
StillInPriorities(updatedPriorities, id) ==
    \E k \in DOMAIN updatedPriorities : updatedPriorities[k].brain_dump_item_id = id

\* handleCrossSectionDrag up to the await: optimistic updates 1 and 2
HandleCrossSectionDrag(brainDumpItemId, prioritySlot) ==
    LET itemAt == FindIndex({k \in DOMAIN localBrainDump : localBrainDump[k].id = brainDumpItemId})
        existingAt == FindIndex({k \in DOMAIN localPriorities :
                                     localPriorities[k].priority_slot = prioritySlot})
        brainDumpItem == localBrainDump[itemAt]
        oldBrainDumpItemId ==
            IF existingAt = 0 THEN NULL ELSE localPriorities[existingAt].brain_dump_item_id
        updatedPriorities ==
            IF existingAt # 0
            THEN [k \in DOMAIN localPriorities |->
                     IF localPriorities[k].priority_slot = prioritySlot
                     THEN [localPriorities[k] EXCEPT
                               !.brain_dump_item_id = brainDumpItemId,
                               !.brain_dump_item = brainDumpItem]
                     ELSE localPriorities[k]]
            ELSE Append(localPriorities,
                        [id |-> TempId(gestures + 1), planner_id |-> planner.id,
                         user_id |-> planner.user_id, priority_slot |-> prioritySlot,
                         brain_dump_item_id |-> brainDumpItemId, custom_text |-> NULL,
                         is_completed |-> FALSE, brain_dump_item |-> brainDumpItem])
    IN  IF itemAt = 0 THEN UNCHANGED <<store, ret, req, app>> ELSE
        /\ localPriorities' = updatedPriorities
        /\ localBrainDump' =
              [k \in DOMAIN localBrainDump |->
                  IF localBrainDump[k].id = brainDumpItemId
                  THEN [localBrainDump[k] EXCEPT !.is_priority = TRUE]
                  ELSE IF oldBrainDumpItemId # NULL
                          /\ localBrainDump[k].id = oldBrainDumpItemId
                  THEN [localBrainDump[k] EXCEPT
                            !.is_priority =
                                StillInPriorities(updatedPriorities, localBrainDump[k].id)]
                  ELSE localBrainDump[k]]
        /\ Await([handler |-> "handleCrossSectionDrag", plannerId |-> planner.id,
                  prioritySlot |-> prioritySlot, brainDumpItemId |-> brainDumpItemId,
                  oldBrainDumpItemId |-> oldBrainDumpItemId])
        /\ isUpdating' = TRUE
        /\ UNCHANGED <<store, ret, req, planner>>

\* the awaited swapPriorityItem has run on the server; on an error the
\* handler reverts both collections to the planner prop it holds
CrossSectionDragDone(call, fault) ==
    LET res == UpsertCall(SwapPayload(call.planner.user_id, call.plannerId,
                                      call.prioritySlot, call.brainDumpItemId), fault)
        before == SlotRows(top_priorities, call.plannerId, call.prioritySlot)
    IN  /\ call \in pending
        /\ call.handler = "handleCrossSectionDrag"
        /\ pending' = AfterAwait(call, res.error # NULL)
        /\ IF res.error # NULL
           THEN /\ ret' = Failed("swapPriorityItem", res.error) @@ [handler |-> call.handler]
                /\ localPriorities' = call.planner.top_priorities
                /\ localBrainDump' = call.planner.brain_dump_items
                /\ UNCHANGED store
           ELSE /\ ret' = Result("swapPriorityItem", "ok") @@
                             [handler |-> call.handler, item |-> call.brainDumpItemId,
                              old |-> IF before = {} THEN "empty"
                                      ELSE (CHOOSE p \in before : TRUE).brain_dump_item_id]
                /\ WritePriorities(res.rows)
                /\ UNCHANGED <<localPriorities, localBrainDump>>
        /\ isUpdating' = FALSE
        /\ UNCHANGED <<req, planner, gestures, dnd>>

\* arrayMove of @dnd-kit/sortable: the element at from taken out and put in at to
ArrayMove(s, from, to) ==
    LET without == [k \in 1..(Len(s) - 1) |-> IF k < from THEN s[k] ELSE s[k + 1]]
    IN  [k \in DOMAIN s |->
            IF k < to THEN without[k]
            ELSE IF k = to THEN s[from]
            ELSE without[k - 1]]

\* handleBrainDumpReorder up to the await
HandleBrainDumpReorder(activeId, overId) ==
    LET oldIndex == FindIndex({k \in DOMAIN localBrainDump : localBrainDump[k].id = activeId})
        newIndex == FindIndex({k \in DOMAIN localBrainDump : localBrainDump[k].id = overId})
        reordered == ArrayMove(localBrainDump, oldIndex, newIndex)
    IN  IF activeId = overId \/ oldIndex = 0 \/ newIndex = 0
        THEN UNCHANGED <<store, ret, req, app>> ELSE
        /\ localBrainDump' = reordered
        /\ Await([handler |-> "handleBrainDumpReorder",
                  updates |-> {[id |-> reordered[k].id, order_index |-> k - 1] :
                                  k \in DOMAIN reordered}])
        /\ isUpdating' = TRUE
        /\ UNCHANGED <<store, ret, req, planner, localPriorities>>

\* the awaited reorderBrainDumpItems has run; on an error the handler reverts
\* the items to the planner prop it holds
BrainDumpReorderDone(call, failed) ==
    /\ call \in pending
    /\ call.handler = "handleBrainDumpReorder"
    /\ pending' = AfterAwait(call, ReorderErrors(call.updates, failed) # {})
    /\ brain_dump_items' =
          ApplyReorder(brain_dump_items, call.planner.user_id, call.updates, failed)
    /\ IF ReorderErrors(call.updates, failed) # {}
       THEN /\ ret' = Failed("reorderBrainDumpItems", "fault") @@ [handler |-> call.handler]
            /\ localBrainDump' = call.planner.brain_dump_items
       ELSE /\ ret' = Result("reorderBrainDumpItems", "ok") @@ [handler |-> call.handler]
            /\ UNCHANGED localBrainDump
    /\ isUpdating' = FALSE
    /\ UNCHANGED <<daily_planners, top_priorities, time_blocks, req, planner,
                   localPriorities, gestures, dnd>>

\* the priority of the target slot stays where it is
KeepOver(p, overId, activeSlot) == p

\* if (p.id === overPriority.id) return { ...p, priority_slot: activeSlot }
SwapOver(p, overId, activeSlot) ==
    IF p.id = overId THEN [p EXCEPT !.priority_slot = activeSlot] ELSE p

\* handlePriorityReorder up to the await: the two slots swap, or the
\* priority moves to the empty slot
HandlePriorityReorder(activeSlot, overSlot) ==
    LET activeAt == FindIndex({k \in DOMAIN localPriorities :
                                  localPriorities[k].priority_slot = activeSlot})
        overAt == FindIndex({k \in DOMAIN localPriorities :
                                localPriorities[k].priority_slot = overSlot})
        activePriority == localPriorities[activeAt]
        overPriority == localPriorities[overAt]
        updatedPriorities ==
            [k \in DOMAIN localPriorities |->
                IF localPriorities[k].id = activePriority.id
                THEN [localPriorities[k] EXCEPT !.priority_slot = overSlot]
                ELSE IF overAt # 0
                THEN SwapOver(localPriorities[k], overPriority.id, activeSlot)
                ELSE localPriorities[k]]
        slotMapping ==
            IF overAt = 0
            THEN <<[id |-> activePriority.id, newSlot |-> overSlot]>>
            ELSE <<[id |-> activePriority.id, newSlot |-> overSlot],
                   [id |-> overPriority.id, newSlot |-> activeSlot]>>
    IN  IF activeSlot = overSlot \/ activeAt = 0
        THEN UNCHANGED <<store, ret, req, app>> ELSE
        /\ localPriorities' = updatedPriorities
        /\ Await([handler |-> "handlePriorityReorder", plannerId |-> planner.id,
                  slotMapping |-> slotMapping])
        /\ isUpdating' = TRUE
        /\ UNCHANGED <<store, ret, req, planner, localBrainDump>>

\* the orders in which the updates of one mapping can reach the store
Arrivals(slotMapping) ==
    IF Len(slotMapping) = 2
    THEN {slotMapping, <<slotMapping[2], slotMapping[1]>>}
    ELSE {slotMapping}

\* the awaited reorderPrioritySlots has run; on an error the handler reverts
\* the priorities to the planner prop it holds
PriorityReorderDone(call, arrival, failed) ==
    LET res == UpdatePrioritySlots(top_priorities, call.planner.user_id, call.plannerId,
                                   arrival, failed)
    IN  /\ call \in pending
        /\ call.handler = "handlePriorityReorder"
        /\ arrival \in Arrivals(call.slotMapping)
        /\ pending' = AfterAwait(call, res.errors # {})
        /\ WritePriorities(res.rows)
        /\ IF res.errors # {}
           THEN /\ ret' = Failed("reorderPrioritySlots",
                                 IF "23505" \in res.errors THEN "23505" ELSE "fault")
                             @@ [handler |-> call.handler]
                /\ localPriorities' = call.planner.top_priorities
           ELSE /\ ret' = Result("reorderPrioritySlots", "ok") @@ [handler |-> call.handler]
                /\ UNCHANGED localPriorities
        /\ isUpdating' = FALSE
        /\ UNCHANGED <<req, planner, localBrainDump, gestures, dnd>>

\* handleTogglePriorityComplete up to the await
HandleTogglePriorityComplete(priorityId, isCompleted) ==
    /\ localPriorities' =
          [k \in DOMAIN localPriorities |->
              IF localPriorities[k].id = priorityId
              THEN [localPriorities[k] EXCEPT !.is_completed = isCompleted]
              ELSE localPriorities[k]]
    /\ Await([handler |-> "handleTogglePriorityComplete", priorityId |-> priorityId,
              isCompleted |-> isCompleted])
    /\ UNCHANGED <<store, ret, req, planner, localBrainDump, isUpdating, dnd>>

\* the awaited updateTopPriority has run; on an error the handler reverts the
\* priorities to the planner prop it holds
TogglePriorityCompleteDone(call, fault) ==
    LET hit == {p \in top_priorities :
                   p.id = call.priorityId /\ p.user_id = call.planner.user_id}
        code == IF fault THEN "fault" ELSE IF hit = {} THEN "PGRST116" ELSE NULL
    IN  /\ call \in pending
        /\ call.handler = "handleTogglePriorityComplete"
        /\ pending' = AfterAwait(call, code # NULL)
        /\ IF code # NULL
           THEN /\ ret' = Failed("updateTopPriority", code) @@ [handler |-> call.handler]
                /\ localPriorities' = call.planner.top_priorities
                /\ UNCHANGED store
           ELSE /\ ret' = Result("updateTopPriority", "ok") @@ [handler |-> call.handler]
                /\ WritePriorities((top_priorities \ hit) \cup
                       {MergeRow(p, [is_completed |-> call.isCompleted]) : p \in hit})
                /\ UNCHANGED localPriorities
        /\ UNCHANGED <<req, planner, localBrainDump, gestures, isUpdating, dnd>>

\* ------------------------------------------------------------------
\* Specification of the dashboard of one planner: the four optimistic
\* mutations, their completions and the refreshes
\* ------------------------------------------------------------------
InitClient ==
    /\ daily_planners = {Planner1}
    /\ brain_dump_items = ItemsOf(Planner1, MaxItems)
    /\ top_priorities = {}
    /\ time_blocks = {}
    /\ ret = NoResult
    /\ req = [r \in Reqs |-> IdleReq]
    /\ planner \in FullPlanners(Planner1)
    /\ localBrainDump = SyncedBrainDump(planner)
    /\ localPriorities = planner.top_priorities
    /\ pending = {}
    /\ gestures = 0
    /\ NoDrag

NextClient ==
    \/ \E id \in ItemIds, slot \in Slots :
           HandleCrossSectionDrag(id, slot) /\ UNCHANGED dnd
    \/ \E call \in pending, fault \in BOOLEAN : CrossSectionDragDone(call, fault)
    \/ \E activeId \in ItemIds, overId \in ItemIds :
           HandleBrainDumpReorder(activeId, overId) /\ UNCHANGED dnd
    \/ \E call \in pending, failed \in {{}, {ItemId(1)}} : BrainDumpReorderDone(call, failed)
    \/ \E activeSlot \in Slots, overSlot \in Slots :
           HandlePriorityReorder(activeSlot, overSlot) /\ UNCHANGED dnd
    \/ \E call \in {c \in pending : c.handler = "handlePriorityReorder"} :
         \E arrival \in Arrivals(call.slotMapping) :
           \E failed \in {{}, {arrival[1].id}} : PriorityReorderDone(call, arrival, failed)
    \/ \E k \in DOMAIN localPriorities :
           HandleTogglePriorityComplete(localPriorities[k].id,
                                        ~localPriorities[k].is_completed)
    \/ \E call \in pending, fault \in BOOLEAN : TogglePriorityCompleteDone(call, fault)
    \/ Refresh

SpecClient == InitClient /\ [][NextClient]_vars

\* a step in which a handler handles the failure of its server call
FailureHandled(handlers) ==
    /\ Cardinality(pending') < Cardinality(pending)
    /\ ret'.status = "error"
    /\ ret'.handler \in handlers

\* C19: when the server call of an optimistic mutation fails, then once the
\* failure is handled every local collection the mutation changed equals
\* the most recent server snapshot received (the current planner prop), also
\* when a refresh arrived while the call was pending
C19_RollbackToLatestSnapshot ==
    [][/\ FailureHandled({"handleCrossSectionDrag", "handlePriorityReorder",
                          "handleTogglePriorityComplete"})
          => localPriorities' = planner'.top_priorities
       /\ FailureHandled({"handleCrossSectionDrag", "handleBrainDumpReorder"})
          => localBrainDump' = planner'.brain_dump_items]_vars

\* ------------------------------------------------------------------
\* The priority flag of an item that occupies two slots
\* ------------------------------------------------------------------
\* the dashboard with items dragged onto the first two priority slots only
AssignSlots == {1, 2}

NextAssign ==
    \/ \E id \in ItemIds, slot \in AssignSlots :
           HandleCrossSectionDrag(id, slot) /\ UNCHANGED dnd
    \/ \E call \in pending, fault \in BOOLEAN : CrossSectionDragDone(call, fault)
    \/ Refresh

SpecAssign == InitClient /\ [][NextAssign]_vars

\* the handler started in this step, if it is a handleCrossSectionDrag that
\* takes a slot from another item
Reassigning(call) ==
    /\ call \in pending' \ pending
    /\ call.handler = "handleCrossSectionDrag"
    /\ call.oldBrainDumpItemId \notin {NULL, call.brainDumpItemId}

\* the swapPriorityItem completed in this step took the slot from another item
Reassigned ==
    /\ Cardinality(pending') < Cardinality(pending)
    /\ ret'.handler = "handleCrossSectionDrag"
    /\ ret'.status = "ok"
    /\ ret'.old \notin {"empty", NULL, ret'.item}

\* C20: when item A occupies two slots and one of them is reassigned to
\* item B, A's is_priority stays true, in the optimistic local state when
\* the drag is handled and on the server when swapPriorityItem has run
C20_FlagKeptWhileReferenced ==
    [][/\ \A call \in pending' \ pending :
             /\ Reassigning(call)
             /\ \E k \in DOMAIN localPriorities' :
                    localPriorities'[k].brain_dump_item_id = call.oldBrainDumpItemId
             => \A k \in DOMAIN localBrainDump' :
                    localBrainDump'[k].id = call.oldBrainDumpItemId
                    => localBrainDump'[k].is_priority
       /\ /\ Reassigned
          /\ \E p \in top_priorities' : p.brain_dump_item_id = ret'.old
          => \A it \in brain_dump_items' : it.id = ret'.old => it.is_priority]_vars

\* a slot of an item in two slots has been reassigned on the server and in
\* the local state: the item is still in a slot and still flagged in both
C20_Witness ==
    /\ pending = {}
    /\ ret.op = "swapPriorityItem"
    /\ ret.status = "ok"
    /\ ret.old \notin {"empty", NULL, ret.item}
    /\ \E p \in top_priorities : p.brain_dump_item_id = ret.old
    /\ \E it \in brain_dump_items : it.id = ret.old /\ it.is_priority
    /\ \E j \in DOMAIN localPriorities, k \in DOMAIN localPriorities :
          /\ localPriorities[j].brain_dump_item_id = ret.old
          /\ localPriorities[k].brain_dump_item_id = ret.item
    /\ \E k \in DOMAIN localBrainDump :
          localBrainDump[k].id = ret.old /\ localBrainDump[k].is_priority

\* ------------------------------------------------------------------
\* The handling of a failed insert in getOrCreatePlanner
\* ------------------------------------------------------------------
\* C21: in getOrCreatePlanner an insert refused by the unique key (23505) is
\* followed by a re-read that returns the existing row; an insert failing
\* with any other code fails the call and creates no row; the insert is
\* never tried again
C21_InsertErrorHandling ==
    [][\A r \in Reqs :
          /\ (req[r].pc = "insert" /\ req'[r] # req[r])
             => /\ req'[r].raced
                   => req'[r].pc = "reread" /\ daily_planners' = daily_planners
                /\ (~req'[r].raced /\ req'[r].pc # "done")
                   => req'[r].pc = "failed" /\ daily_planners' = daily_planners
          /\ (req[r].pc = "reread" /\ req'[r] # req[r])
             => /\ daily_planners' = daily_planners
                /\ \/ /\ req'[r].pc = "done"
                      /\ PlannerOf(daily_planners, req[r].userId, req[r].date)
                            = {pl \in daily_planners : pl.id = req'[r].result}
                   \/ req'[r].pc = "failed" /\ req'[r].faulted
          /\ req[r].pc \in {"reread", "failed"} => req'[r].pc # "insert"]_vars

\* one call has returned the existing row after a duplicate key error while
\* another has failed on an insert error of another kind
C21_Witness ==
    \E r1, r2 \in Reqs :
        /\ req[r1].pc = "done" /\ req[r1].raced
        /\ req[r1].result \in {pl.id : pl \in daily_planners}
        /\ req[r2].pc = "failed" /\ req[r2].faulted /\ ~req[r2].raced
        /\ PlannerOf(daily_planners, req[r2].userId, req[r2].date) = {}

\* ------------------------------------------------------------------
\* Store errors in the reads of getFullPlanner
\* ------------------------------------------------------------------
\* the ids of the rows of a returned collection
IdsIn(rows) == {rows[k].id : k \in DOMAIN rows}

\* C22: a store error in a read of a core operation fails the operation; in
\* particular a getFullPlanner that returns carries the items, priorities
\* and time blocks the store holds for the planner, never an empty
\* collection in place of a failed fetch
C22_StoreErrorSurfaced ==
    [][(ret' # ret /\ ret'.op = "getFullPlanner" /\ ret'.status = "ok")
          => /\ IdsIn(ret'.brain_dump_items)
                  = {it.id : it \in {x \in brain_dump_items : x.planner_id = ret'.id}}
             /\ IdsIn(ret'.top_priorities)
                  = {p.id : p \in {x \in top_priorities : x.planner_id = ret'.id}}
             /\ IdsIn(ret'.time_blocks)
                  = {b.id : b \in {x \in time_blocks : x.planner_id = ret'.id}}]_vars

\* ------------------------------------------------------------------
\* The local is_priority indicator
\* ------------------------------------------------------------------
\* C23: in the dashboard, after any sequence of syncs, optimistic
\* assignments, confirmations and rollbacks, every local item's is_priority
\* equals whether some priority of the local priority list references it
C23_FlagRederived ==
    \A k \in DOMAIN localBrainDump :
        localBrainDump[k].is_priority
            = StillInPriorities(localPriorities, localBrainDump[k].id)

\* ------------------------------------------------------------------
\* DRAG AND DROP: handleDragStart, handleDragEnd and its four scenarios
\* ------------------------------------------------------------------
\* what can be dragged: an item, a priority slot, something with no data
Draggables ==
    {[type |-> "brain-dump-item", id |-> i, slot |-> NULL] : i \in ItemIds}
      \cup {[type |-> "priority-slot", id |-> "priority-slot", slot |-> n] : n \in Slots}
      \cup {[type |-> NULL, id |-> "other", slot |-> NULL]}

DropHours == {9}

\* what can be dropped on: an item, a priority slot, an hour of the
\* schedule, something with no data
Droppables ==
    {[type |-> "brain-dump-item", id |-> i, slot |-> NULL, hour |-> NULL] : i \in ItemIds}
      \cup {[type |-> "priority-slot", id |-> "priority-slot", slot |-> n, hour |-> NULL] :
               n \in Slots}
      \cup {[type |-> "time-slot", id |-> "time-slot", slot |-> NULL, hour |-> h] :
               h \in DropHours}
      \cup {[type |-> NULL, id |-> "other", slot |-> NULL, hour |-> NULL]}

\* event.over is null
NoOver == [type |-> NULL, id |-> NULL, slot |-> NULL, hour |-> NULL]

DragEvents == [active : Draggables, over : Droppables \cup {NoOver}]

\* handleDragStart
HandleDragStart(active) ==
    /\ draggedId = NULL
    /\ draggedId' = active.id
    /\ UNCHANGED <<store, ret, req, app, modal, console>>

\* any drop on a priority slot is an assignment, whatever is dragged
DragScenarioByTarget(event) ==
    IF event.over = NoOver THEN "Not dropped over a valid target"
    ELSE IF event.over.type = "priority-slot" THEN "handleCrossSectionDrag"
    ELSE IF event.active.type = "brain-dump-item" /\ event.over.type = "brain-dump-item"
    THEN "handleBrainDumpReorder"
    ELSE IF event.active.type = "brain-dump-item" /\ event.over.type = "time-slot"
    THEN "handleDropOnTimeSlot"
    ELSE "No matching drag scenario"

\* the chain of tests of handleDragEnd: the handler it calls, or what it logs
DragScenario(event) ==
    IF event.over = NoOver THEN "Not dropped over a valid target"
    ELSE IF event.active.type = "brain-dump-item" /\ event.over.type = "brain-dump-item"
    THEN "handleBrainDumpReorder"
    ELSE IF event.active.type = "brain-dump-item" /\ event.over.type = "priority-slot"
    THEN "handleCrossSectionDrag"
    ELSE IF event.active.type = "priority-slot" /\ event.over.type = "priority-slot"
    THEN "handlePriorityReorder"
    ELSE IF event.active.type = "brain-dump-item" /\ event.over.type = "time-slot"
    THEN "handleDropOnTimeSlot"
    ELSE "No matching drag scenario"

\* handleDropOnTimeSlot: opens the modal for the hour when the item is known
HandleDropOnTimeSlot(brainDumpItemId, hour) ==
    IF FindIndex({k \in DOMAIN localBrainDump : localBrainDump[k].id = brainDumpItemId}) = 0
    THEN UNCHANGED modal
    ELSE modal' = [isModalOpen |-> TRUE, editingBlock |-> NULL, droppedHour |-> hour]

\* handleDragEnd
HandleDragEnd(event) ==
    LET scenario == DragScenario(event)
    IN  /\ draggedId # NULL
        /\ draggedId = event.active.id
        /\ draggedId' = NULL
        /\ console' = IF event.over = NoOver THEN [NoLog EXCEPT !.message = scenario]
                      ELSE [activeType |-> event.active.type,
                            overType |-> event.over.type, message |-> scenario]
        /\ CASE scenario = "handleBrainDumpReorder" ->
                   HandleBrainDumpReorder(event.active.id, event.over.id) /\ UNCHANGED modal
             [] scenario = "handleCrossSectionDrag" ->
                   HandleCrossSectionDrag(event.active.id, event.over.slot)
                     /\ UNCHANGED modal
             [] scenario = "handlePriorityReorder" ->
                   HandlePriorityReorder(event.active.slot, event.over.slot)
                     /\ UNCHANGED modal
             [] scenario = "handleDropOnTimeSlot" ->
                   HandleDropOnTimeSlot(event.active.id, event.over.hour)
                     /\ UNCHANGED <<store, ret, req, app>>
             [] OTHER -> UNCHANGED <<store, ret, req, app, modal>>

\* ------------------------------------------------------------------
\* Specification of the drags on the dashboard of one planner
\* ------------------------------------------------------------------
MaxDrags == 2

\* the dashboard is open on a planner whose first slot holds the first item
InitDrag ==
    /\ daily_planners = {Planner1}
    /\ top_priorities = {NewPriorityRow({}, SwapPayload(Planner1.user_id, Planner1.id,
                                                        1, ItemId(1)))}
    /\ brain_dump_items = PriorityFlagTrigger(ItemsOf(Planner1, MaxItems), top_priorities)
    /\ time_blocks = {}
    /\ ret = NoResult
    /\ req = [r \in Reqs |-> IdleReq]
    /\ planner \in FullPlanners(Planner1)
    /\ localBrainDump = SyncedBrainDump(planner)
    /\ localPriorities = planner.top_priorities
    /\ pending = {}
    /\ gestures = 0
    /\ NoDrag

\* drags are made one after the other, the next one when the server call of
\* the last one has succeeded, until MaxDrags of them have called the server
NextDrag ==
    \/ \E active \in Draggables :
           pending = {} /\ gestures < MaxDrags /\ HandleDragStart(active)
    \/ \E event \in DragEvents : HandleDragEnd(event)
    \/ \E call \in pending : CrossSectionDragDone(call, FALSE) /\ UNCHANGED dnd
    \/ \E call \in pending : BrainDumpReorderDone(call, {}) /\ UNCHANGED dnd
    \/ \E call \in {c \in pending : c.handler = "handlePriorityReorder"} :
           PriorityReorderDone(call, call.slotMapping, {}) /\ UNCHANGED dnd

SpecDrag == InitDrag /\ [][NextDrag]_vars

\* C24: handleDragEnd dispatches on the (active type, over type) pair to
\* exactly one of item reorder, item to priority, priority reorder and item
\* to time slot; a drop with no target or with any other pair changes no
\* local collection, issues no server call and raises no error
C24_DragDispatch ==
    [][\A event \in DragEvents :
          HandleDragEnd(event)
          => IF event.over = NoOver
             THEN UNCHANGED <<store, ret, req, app, modal>>
             ELSE IF event.active.type = "brain-dump-item"
                     /\ event.over.type = "brain-dump-item"
             THEN HandleBrainDumpReorder(event.active.id, event.over.id)
                    /\ UNCHANGED modal
             ELSE IF event.active.type = "brain-dump-item"
                     /\ event.over.type = "priority-slot"
             THEN HandleCrossSectionDrag(event.active.id, event.over.slot)
                    /\ UNCHANGED modal
             ELSE IF event.active.type = "priority-slot"
                     /\ event.over.type = "priority-slot"
             THEN HandlePriorityReorder(event.active.slot, event.over.slot)
                    /\ UNCHANGED modal
             ELSE IF event.active.type = "brain-dump-item"
                     /\ event.over.type = "time-slot"
             THEN HandleDropOnTimeSlot(event.active.id, event.over.hour)
                    /\ UNCHANGED <<store, ret, req, app>>
             ELSE UNCHANGED <<store, ret, req, app, modal>>]_vars

\* a priority slot has been dropped on an item: nothing but the log changed;
\* before that a drop on an hour of the schedule had opened the modal
C24_Witness ==
    /\ console = [activeType |-> "priority-slot", overType |-> "brain-dump-item",
                  message |-> "No matching drag scenario"]
    /\ draggedId = NULL
    /\ modal.isModalOpen
    /\ pending = {}
    /\ localPriorities = planner.top_priorities
    /\ localBrainDump = SyncedBrainDump(planner)

\* ------------------------------------------------------------------
\* Specification of the life of an optimistic mutation: item reorders and
\* completion toggles on a planner with one priority, every server call
\* returning in the end
\* ------------------------------------------------------------------
\* the server call of the n-th handler returns
Settle(n) ==
    \E call \in {c \in pending : c.n = n} :
        \/ \E failed \in {{}, {ItemId(1)}} : BrainDumpReorderDone(call, failed)
        \/ \E fault \in BOOLEAN : TogglePriorityCompleteDone(call, fault)

NextSettle ==
    \/ HandleBrainDumpReorder(ItemId(1), ItemId(2)) /\ UNCHANGED dnd
    \/ \E k \in DOMAIN localPriorities :
           HandleTogglePriorityComplete(localPriorities[k].id,
                                        ~localPriorities[k].is_completed)
    \/ \E n \in 1..MaxGestures : Settle(n)
    \/ Refresh

SpecSettle ==
    InitDrag /\ [][NextSettle]_vars /\ \A n \in 1..MaxGestures : WF_vars(Settle(n))

\* the n-th handler is applied locally and awaits its server call
Applied(n) == \E c \in pending : c.n = n

\* the step in which the n-th handler's call returned with the status
Settled(n, status) ==
    /\ Applied(n)
    /\ ~Applied(n)'
    /\ ret'.status = status

SlotNumbers == Slots \cup {4}

NextRange ==
    \E userId \in {Planner1.user_id} :
        \/ \E slot \in SlotNumbers :
               SwapPriorityItem(userId, Planner1.id, slot, ItemId(1), FALSE)
        \/ \E slot \in SlotNumbers :
               UpsertTopPriority(userId, [planner_id |-> Planner1.id,
                                          priority_slot |-> slot,
                                          brain_dump_item_id |-> ItemId(1)], FALSE)
        \/ \E p \in top_priorities, slot \in SlotNumbers :
               ReorderPrioritySlots(userId, Planner1.id,
                                    <<[id |-> p.id, newSlot |-> slot]>>, {})

SpecRange == InitPriority /\ [][NextRange]_vars

\* C26: every priority row has a slot number in {1, 2, 3} after any sequence
\* of swapPriorityItem, upsertTopPriority and reorderPrioritySlots calls; a
\* call carrying another slot number is rejected and changes no row
C26_SlotInRange ==
    \A p \in top_priorities : p.priority_slot \in Slots

\* ------------------------------------------------------------------
\* Content of a time block
\* ------------------------------------------------------------------
\* C27: every time block has exactly one of item reference and custom text
\* (never both, never neither) after any sequence of createTimeBlock,
\* updateTimeBlock and deletions; a create or update with other content is
\* rejected and changes no row
C27_BlockEitherOr ==
    \A b \in time_blocks : (b.brain_dump_item_id = NULL) # (b.custom_text = NULL)

\* ------------------------------------------------------------------
\* The saving indicator
\* ------------------------------------------------------------------
\* the handlers that call setIsUpdating(true) before their server call
SavingHandlers ==
    {"handleCrossSectionDrag", "handleBrainDumpReorder", "handlePriorityReorder"}

\* C28: isUpdating is true in every state in which the server call of at
\* least one reorder or assign mutation is still pending, also when two such
\* mutations overlap and one finishes before the other
C28_SavingWhilePending ==
    (\E call \in pending : call.handler \in SavingHandlers) => isUpdating

\* ------------------------------------------------------------------
\* Temporary priority ids
\* ------------------------------------------------------------------
\* the ids the client can have generated
TempIds == {TempId(now) : now \in 1..MaxGestures}

\* the priority ids a pending call hands to its server operation
PriorityIdsSent(call) ==
    IF call.handler = "handleTogglePriorityComplete" THEN {call.priorityId}
    ELSE IF call.handler = "handlePriorityReorder"
    THEN {call.slotMapping[k].id : k \in DOMAIN call.slotMapping}
    ELSE {}

\* C29: no server operation is invoked with a temporary priority id: a row
\* added optimistically by a drop on an empty slot is not passed to
\* updateTopPriority or reorderPrioritySlots before the row of the server
\* has replaced it
C29_NoTempIdSent ==
    \A call \in pending : PriorityIdsSent(call) \cap TempIds = {}

\* ------------------------------------------------------------------
\* One priority per slot
\* ------------------------------------------------------------------
\* C30: the local priority list holds at most one priority per slot after
\* any sequence of optimistic assignments, priority reorders, rollbacks and
\* server syncs
C30_OnePerSlotLocally ==
    \A j, k \in DOMAIN localPriorities :
        localPriorities[j].priority_slot = localPriorities[k].priority_slot => j = k

\* every server snapshot has at most one priority per slot
SnapshotOnePerSlot ==
    \A p, q \in top_priorities :
        (p.planner_id = q.planner_id /\ p.priority_slot = q.priority_slot) => p = q

\* the dashboard with assignments and priority reorders only
NextLocal ==
    \/ \E id \in ItemIds, slot \in AssignSlots :
           HandleCrossSectionDrag(id, slot) /\ UNCHANGED dnd
    \/ \E call \in pending, fault \in BOOLEAN : CrossSectionDragDone(call, fault)
    \/ \E activeSlot \in AssignSlots, overSlot \in AssignSlots :
           HandlePriorityReorder(activeSlot, overSlot) /\ UNCHANGED dnd
    \/ \E call \in {c \in pending : c.handler = "handlePriorityReorder"} :
         \E arrival \in Arrivals(call.slotMapping) :
           \E failed \in {{}, {arrival[1].id}} : PriorityReorderDone(call, arrival, failed)
    \/ Refresh

SpecLocal == InitClient /\ [][NextLocal]_vars

\* two local priorities have just swapped their slots, the call is pending
C30_Witness ==
    /\ Len(localPriorities) >= 2
    /\ localPriorities # planner.top_priorities
    /\ \E call \in pending :
          /\ call.handler = "handlePriorityReorder"
          /\ Len(call.slotMapping) = 2

====
